---------------------------- MODULE Spec2Model ----------------------------
(***************************************************************************)
(* Dynamic-forms task pane (src/taskpane.js): the selection router, the    *)
(* A1 address utilities and the event-driven render loop.                  *)
(*                                                                         *)
(* JavaScript strings are sequences of one-character strings, so that      *)
(* trim, toLowerCase, split and the regular expressions of the source are  *)
(* computed character by character.                                        *)
(***************************************************************************)
EXTENDS Integers, Sequences, FiniteSets, TLC

(***************************************************************************)
(* JavaScript values                                                       *)
(***************************************************************************)

\* null / undefined: a sequence no string equals (strings hold single characters).
null == <<"<null>">>

\* The empty string; also stands for an absent (undefined) string property,
\* which the source only ever tests for truthiness.
EmptyStr == <<>>

\* Truthiness of a string-or-null value (`x && ...`, `x || y`).
Truthy(x) == x # null /\ x # EmptyStr

LowerLetters ==
  <<"a", "b", "c", "d", "e", "f", "g", "h", "i", "j", "k", "l", "m",
    "n", "o", "p", "q", "r", "s", "t", "u", "v", "w", "x", "y", "z">>

UpperLetters ==
  <<"A", "B", "C", "D", "E", "F", "G", "H", "I", "J", "K", "L", "M",
    "N", "O", "P", "Q", "R", "S", "T", "U", "V", "W", "X", "Y", "Z">>

DigitChars == <<"0", "1", "2", "3", "4", "5", "6", "7", "8", "9">>

WhiteSpace == {" ", "\t", "\n", "\r"}

\* Position of each character of the sequence of distinct characters s.
PositionIn(s) ==
  [c \in {s[i] : i \in 1..Len(s)} |-> CHOOSE i \in 1..Len(s) : s[i] = c]

UpperPos == PositionIn(UpperLetters)
LowerPos == PositionIn(LowerLetters)
DigitPos == PositionIn(DigitChars)

IsUpper(c) == c \in DOMAIN UpperPos
IsLower(c) == c \in DOMAIN LowerPos
IsDigit(c) == c \in DOMAIN DigitPos

toLowerChar(c) == IF IsUpper(c) THEN LowerLetters[UpperPos[c]] ELSE c
toUpperChar(c) == IF IsLower(c) THEN UpperLetters[LowerPos[c]] ELSE c

\* String.prototype.toLowerCase / toUpperCase
toLowerCase(s) == [i \in 1..Len(s) |-> toLowerChar(s[i])]
toUpperCase(s) == [i \in 1..Len(s) |-> toUpperChar(s[i])]

\* String.prototype.trim
RECURSIVE trimStart(_)
trimStart(s) ==
  IF s # <<>> /\ Head(s) \in WhiteSpace THEN trimStart(Tail(s)) ELSE s

RECURSIVE trimEnd(_)
trimEnd(s) ==
  IF s # <<>> /\ s[Len(s)] \in WhiteSpace
    THEN trimEnd(SubSeq(s, 1, Len(s) - 1))
    ELSE s

trim(s) == trimEnd(trimStart(s))

\* String.prototype.split(sep) for a one-character separator: the pieces
\* between separators, in order; the empty string splits to one empty piece.
RECURSIVE splitFrom(_, _, _)
splitFrom(s, sep, cur) ==
  IF s = <<>> THEN <<cur>>
  ELSE IF Head(s) = sep THEN <<cur>> \o splitFrom(Tail(s), sep, <<>>)
  ELSE splitFrom(Tail(s), sep, Append(cur, Head(s)))

split(s, sep) == splitFrom(s, sep, <<>>)

\* Array.prototype.join(sep) for a one-character separator.
RECURSIVE join(_, _)
join(parts, sep) ==
  IF parts = <<>> THEN <<>>
  ELSE IF Len(parts) = 1 THEN parts[1]
  ELSE parts[1] \o <<sep>> \o join(Tail(parts), sep)

\* s.replace(/\$/g, "")
stripDollars(s) == SelectSeq(s, LAMBDA c : c # "$")

\* String(x || ""): null and undefined become the empty string.
strOrEmpty(x) == IF Truthy(x) THEN x ELSE EmptyStr

(***************************************************************************)
(* Address utilities (src/taskpane.js, "Address utilities")                *)
(***************************************************************************)

localizeAddress(fullAddress) ==
  LET parts == split(strOrEmpty(fullAddress), "!")
      local == IF Len(parts) > 1 THEN join(Tail(parts), "!") ELSE parts[1]
  IN  stripDollars(local)

\* A normalizeA1 whose replace lacks the g flag: only the first "$" goes.
normalizeA1FirstDollar(addr) ==
  LET x == strOrEmpty(addr)
      at == {i \in 1..Len(x) : x[i] = "$"}
  IN  IF at = {} THEN toUpperCase(x)
      ELSE LET k == CHOOSE i \in at : \A j \in at : i <= j
           IN  toUpperCase(SubSeq(x, 1, k - 1) \o SubSeq(x, k + 1, Len(x)))

normalizeA1(addr) == toUpperCase(stripDollars(strOrEmpty(addr)))

RECURSIVE colToNumFrom(_, _)
colToNumFrom(col, n) ==
  IF col = <<>> THEN n
  ELSE colToNumFrom(Tail(col), n * 26 + UpperPos[Head(col)])

\* col.charCodeAt(i) - 64 is the position of an upper-case letter in A..Z.
colToNum(col) == colToNumFrom(col, 0)

RECURSIVE parseIntFrom(_, _)
parseIntFrom(ds, n) ==
  IF ds = <<>> THEN n
  ELSE parseIntFrom(Tail(ds), n * 10 + (DigitPos[Head(ds)] - 1))

\* parseInt(digits, 10) on a non-empty run of decimal digits.
parseInt(ds) == parseIntFrom(ds, 0)

\* Length of the longest prefix of s made of upper-case letters ([A-Z]+).
RECURSIVE letterRun(_)
letterRun(s) ==
  IF s # <<>> /\ IsUpper(Head(s)) THEN 1 + letterRun(Tail(s)) ELSE 0

\* Length of the longest prefix of s made of decimal digits (\d+).
RECURSIVE digitRun(_)
digitRun(s) ==
  IF s # <<>> /\ IsDigit(Head(s)) THEN 1 + digitRun(Tail(s)) ELSE 0

\* A parsePoint whose pattern lets the digits be absent (\d*): letters alone
\* are decoded, with row 1.
parsePointDigitsOptional(p) ==
  LET u == toUpperCase(p)
      k == letterRun(u)
      rest == SubSeq(u, k + 1, Len(u))
      m == k >= 1 /\ digitRun(rest) = Len(rest)
  IN  IF ~m THEN [c |-> 1, r |-> 1]
      ELSE [c |-> colToNum(SubSeq(u, 1, k)),
            r |-> IF rest = <<>> THEN 1 ELSE parseInt(rest)]

\* /^([A-Z]+)(\d+)$/.exec(String(p).toUpperCase()), else column 1, row 1.
parsePoint(p) ==
  LET u == toUpperCase(p)
      k == letterRun(u)
      rest == SubSeq(u, k + 1, Len(u))
      m == k >= 1 /\ rest # <<>> /\ digitRun(rest) = Len(rest)
  IN  IF ~m THEN [c |-> 1, r |-> 1]
      ELSE [c |-> colToNum(SubSeq(u, 1, k)), r |-> parseInt(rest)]

Min(a, b) == IF a <= b THEN a ELSE b
Max(a, b) == IF a >= b THEN a ELSE b

parseArea(a1) ==
  LET parts == split(a1, ":")
  IN  IF Len(parts) = 1
        THEN LET pt == parsePoint(parts[1])
             IN  [c1 |-> pt.c, r1 |-> pt.r, c2 |-> pt.c, r2 |-> pt.r]
        ELSE LET p1 == parsePoint(parts[1])
                 p2 == parsePoint(parts[2])
             IN  [c1 |-> Min(p1.c, p2.c), r1 |-> Min(p1.r, p2.r),
                  c2 |-> Max(p1.c, p2.c), r2 |-> Max(p1.r, p2.r)]

\* Mutant of areaContains: strict comparisons, so an area does not contain itself.
areaContainsStrict(a, b) == a.c1 < b.c1 /\ a.r1 < b.r1 /\ a.c2 > b.c2 /\ a.r2 > b.r2

\* An areaContains that wants the container to differ from what it contains.
areaContainsProper(a, b) ==
  a # b /\ a.c1 <= b.c1 /\ a.r1 <= b.r1 /\ a.c2 >= b.c2 /\ a.r2 >= b.r2

areaContains(a, b) == a.c1 <= b.c1 /\ a.r1 <= b.r1 /\ a.c2 >= b.c2 /\ a.r2 >= b.r2

\* The inner loop of containsAddress: scan the selection areas in order and
\* stop at the first one that contains tArea.
RECURSIVE coveredBy(_, _)
coveredBy(selAreas, tArea) ==
  IF selAreas = <<>> THEN FALSE
  ELSE IF areaContains(parseArea(trim(Head(selAreas))), tArea) THEN TRUE
  ELSE coveredBy(Tail(selAreas), tArea)

\* The outer loop of containsAddress: return false at the first target area
\* that no selection area contains.
RECURSIVE allCovered(_, _)
allCovered(selAreas, tgtAreas) ==
  IF tgtAreas = <<>> THEN TRUE
  ELSE IF ~coveredBy(selAreas, parseArea(trim(Head(tgtAreas)))) THEN FALSE
  ELSE allCovered(selAreas, Tail(tgtAreas))

\* The cells of an area.
cellsOf(area) == (area.c1..area.c2) \X (area.r1..area.r2)

\* Mutant of containsAddress: the target is covered when each of its cells lies
\* in some selection area (coverage by the union of the selection).
containsAddressUnion(selection, target) ==
  LET selAreas == split(selection, ",")
      tgtAreas == split(target, ",")
  IN  \A k \in 1..Len(tgtAreas) :
        \A cell \in cellsOf(parseArea(trim(tgtAreas[k]))) :
          \E j \in 1..Len(selAreas) : cell \in cellsOf(parseArea(trim(selAreas[j])))

containsAddress(selection, target) ==
  allCovered(split(selection, ","), split(target, ","))

(***************************************************************************)
(* State                                                                   *)
(***************************************************************************)

VARIABLES
  SelectionRoutes,     \* the rule list (a constant array of the source)
  lastRenderedFormId,  \* form id tracked by renderForm, null before the first render
  lastRenderTs,        \* time of the last render the cooldown counts from
  selectionSub,        \* handle of the selection-changed subscription, or null
  selectionSubSheet,   \* sheet name the subscription was added for, or null
  names,               \* the workbook's named items: name -> named item
  wsName,              \* the workbook: name of the active worksheet
  a1Text,              \* the workbook: text of cell A1 of the active worksheet
  selAddress,          \* the workbook: address of the selected range
  call,                \* the router's latest call (none: <<>>): the names it
                       \* resolved against and what it returned
  input,               \* arguments of an address utility under test
  output,              \* what the utility returned (not yet applied: <<>>)
  now,                 \* Date.now()
  app,                 \* content of the panel element #app
  tasks,               \* the handler invocations in progress
  started,             \* number of handler invocations so far
  onActivatedAdded,    \* the host holds the worksheet-activated handler
  hostSelection,       \* selection-changed handlers the host holds
  selLog,              \* what became of the latest selection-changed event
  BOOTSTRAPPED,        \* __BOOTSTRAPPED__ of the shared runtime
  RENDER_BUSY,         \* __RENDER_BUSY__ of the shared runtime
  timers,              \* setTimeout callbacks of the shared runtime not yet run
  skipped,             \* an invocation of showGuest has returned at its guard
  globalShowGuest,     \* what the name showGuest denotes where the timers' callbacks call it
  rearmed,             \* callbacks of the shared runtime that have set a timer again
  boundCell,           \* the workbook: value of the cell the field is bound to
  field,               \* the bound field of the form shown
  debounceTimer,       \* debounceTimer: the timer set last (0: none), named by its due time
  pending,             \* due times of the timers set and neither run nor cleared
  sheetChangeUnsub,    \* handle of the worksheet-changed subscription, or null
  hostChanged,         \* worksheet-changed handlers the host holds
  bindLog,             \* what became of the latest cell-changed notification
  initialized,         \* ErrorHandler.initialized
  env,                 \* ErrorHandler.env.dev
  inHandle,            \* ErrorHandler.inHandle
  dedupe,              \* ErrorHandler._dedupe
  rate,                \* ErrorHandler._rate: the notify and the log bucket
  errLog               \* what ErrorHandler displayed and scheduled of late

workbook == <<wsName, a1Text, selAddress>>

probe == <<input, output>>

\* The render and subscription state besides lastRenderedFormId.
renderState == <<lastRenderTs, selectionSub, selectionSubSheet>>

\* The event loop: the clock, the panel, the handlers and the host's side.
loop == <<now, app, tasks, started, onActivatedAdded, hostSelection, selLog>>

\* The shared runtime (src/runtime.js).
runtime == <<BOOTSTRAPPED, RENDER_BUSY, timers, skipped, globalShowGuest, rearmed>>

\* The two-way bindings of the form shown.
binding == <<boundCell, field, debounceTimer, pending, sheetChangeUnsub, hostChanged, bindLog>>

\* The central error handler (src/error-handler.js).
handler == <<initialized, env, inHandle, dedupe, rate, errLog>>

\* What the router and the event loop of the task pane leave alone.
aside == <<runtime, binding, handler>>

vars == <<SelectionRoutes, lastRenderedFormId, renderState, names, workbook,
          call, probe, loop, aside>>

(***************************************************************************)
(* Routing helpers (src/taskpane.js, "Routing helpers")                    *)
(***************************************************************************)

\* Own keys of the HtmlMap object literal.
HtmlMapKeys == {
  <<"d", "e", "f", "a", "u", "l", "t">>,
  <<"s", "e", "t", "t", "i", "n", "g", "s">>,
  <<"c", "o", "l", "o", "r", "P", "a", "l", "e", "t", "t", "e">> }

\* Property names every plain object inherits from Object.prototype: HtmlMap[k]
\* is a (truthy) function or object for these although k is no key of the map.
ObjectPrototypeKeys == {
  <<"c", "o", "n", "s", "t", "r", "u", "c", "t", "o", "r">>,
  <<"t", "o", "S", "t", "r", "i", "n", "g">>,
  <<"v", "a", "l", "u", "e", "O", "f">>,
  <<"h", "a", "s", "O", "w", "n", "P", "r", "o", "p", "e", "r", "t", "y">>,
  <<"_", "_", "p", "r", "o", "t", "o", "_", "_">> }

\* HtmlMap[k] as the tests `HtmlMap[k] ? ...` and `HtmlMap[k] || ...` see it.
HtmlMapTruthy(k) == k \in HtmlMapKeys \cup ObjectPrototypeKeys

IsIdentChar(c) == IsLower(c) \/ IsUpper(c) \/ IsDigit(c) \/ c = "_" \/ c = "-"

\* Length of the longest prefix of s made of whitespace (\s*).
RECURSIVE spaceRun(_)
spaceRun(s) ==
  IF s # <<>> /\ Head(s) \in WhiteSpace THEN 1 + spaceRun(Tail(s)) ELSE 0

\* Length of the longest prefix of s made of [a-z0-9_-], case-insensitively.
RECURSIVE identRun(_)
identRun(s) ==
  IF s # <<>> /\ IsIdentChar(Head(s)) THEN 1 + identRun(Tail(s)) ELSE 0

from(s, i) == SubSeq(s, i, Len(s))

\* /form\s*:\s*([a-z0-9_-]+)/i anchored at position i of t: the captured
\* group, or null when the pattern does not match there.
hintMatchAt(t, i) ==
  LET colon == i + 4 + spaceRun(from(t, i + 4))
      start == colon + 1 + spaceRun(from(t, colon + 1))
      n == identRun(from(t, start))
  IN  IF /\ i + 3 <= Len(t)
         /\ toLowerCase(SubSeq(t, i, i + 3)) = <<"f", "o", "r", "m">>
         /\ colon <= Len(t)
         /\ t[colon] = ":"
         /\ n >= 1
        THEN SubSeq(t, start, start + n - 1)
        ELSE null

\* Mutant of parseFormHintFromCell: the captured identifier is returned as
\* written, not lower-cased.
parseFormHintKeepCase(text) ==
  LET t == strOrEmpty(text)
      hits == {i \in 1..Len(t) : hintMatchAt(t, i) # null}
  IN  IF hits = {} THEN null
      ELSE hintMatchAt(t, CHOOSE i \in hits : \A j \in hits : i <= j)

\* text is the text of cell A1 (text2d[0][0], the empty string for an empty cell).
parseFormHintFromCell(text) ==
  LET t == strOrEmpty(text)
      hits == {i \in 1..Len(t) : hintMatchAt(t, i) # null}
  IN  IF hits = {} THEN null
      ELSE LET first == CHOOSE i \in hits : \A j \in hits : i <= j
           IN  toLowerCase(hintMatchAt(t, first))

\* Mutant of pickFormId: once a form has been rendered the base form is read
\* from the render state.
pickFormIdSticky(hint, sheetName) ==
  IF lastRenderedFormId # null THEN lastRenderedFormId
  ELSE IF Truthy(hint) /\ HtmlMapTruthy(hint) THEN hint
  ELSE LET key == trim(toLowerCase(strOrEmpty(sheetName)))
       IN  IF HtmlMapTruthy(key) THEN key ELSE <<"d", "e", "f", "a", "u", "l", "t">>

pickFormId(hint, sheetName) ==
  IF Truthy(hint) /\ HtmlMapTruthy(hint) THEN hint
  ELSE LET key == trim(toLowerCase(strOrEmpty(sheetName)))
       IN  IF HtmlMapTruthy(key) THEN key ELSE <<"d", "e", "f", "a", "u", "l", "t">>

\* (r.sheet || "").toLowerCase().trim()
ruleSheet(rule) == trim(toLowerCase(strOrEmpty(rule.sheet)))

\* Mutant of hasSelectionRoutesForSheet: any rule counts, whatever its sheet.
hasSelectionRoutesAnywhere(sheetName) == Len(SelectionRoutes) > 0

hasSelectionRoutesForSheet(sheetName) ==
  LET s == trim(toLowerCase(strOrEmpty(sheetName)))
  IN  \E i \in 1..Len(SelectionRoutes) : ruleSheet(SelectionRoutes[i]) = s

\* parts[0].replace(/^'/, "").replace(/'$/, "")
stripQuotes(p) ==
  LET a == IF p # <<>> /\ Head(p) = "'" THEN Tail(p) ELSE p
  IN  IF a # <<>> /\ a[Len(a)] = "'" THEN SubSeq(a, 1, Len(a) - 1) ELSE a

NamedItem(isRange, address) ==
  [isNullObject |-> FALSE, isRange |-> isRange, address |-> address]

NullObject == [isNullObject |-> TRUE, isRange |-> FALSE, address |-> EmptyStr]

\* ctx.workbook.names.getItemOrNullObject(name), after the sync.
getItemOrNullObject(nms, name) ==
  IF name \in DOMAIN nms THEN nms[name] ELSE NullObject

\* Mutant of namedRangeOutcome: the sheet of the named range is not compared
\* with the current sheet.
namedRangeAnySheet(nm, s, sel) ==
  IF nm.isNullObject \/ ~nm.isRange THEN "next"
  ELSE IF containsAddress(sel, normalizeA1(localizeAddress(nm.address))) THEN "fire"
  ELSE "next"

\* The named-range branch of one rule, entered after the lookup of the name
\* has been synced: "fire", or "next" for every way of not firing (null
\* object, getRange() rejected because the item is no range, range on another
\* sheet, range not covered).
namedRangeOutcome(nm, s, sel) ==
  IF nm.isNullObject THEN "next"
  ELSE IF ~nm.isRange THEN "next"
  ELSE LET parts == split(strOrEmpty(nm.address), "!")
           sheetFromName == IF Len(parts) > 1 THEN stripQuotes(parts[1]) ELSE s
           localA1 == localizeAddress(nm.address)
       IN  IF trim(toLowerCase(sheetFromName)) # s THEN "next"
           ELSE IF containsAddress(sel, normalizeA1(localA1)) THEN "fire"
           ELSE "next"

\* Mutant of overrideFrom: a rule that fires does not end the loop, so the last
\* rule that fires wins and every rule is evaluated.
RECURSIVE lastFrom(_, _, _, _, _, _)
lastFrom(nms, s, sel, i, acc, form) ==
  IF i > Len(SelectionRoutes) THEN [form |-> form, lookups |-> acc.lookups, seen |-> acc.seen]
  ELSE
    LET rule == SelectionRoutes[i]
        here == [lookups |-> acc.lookups, seen |-> acc.seen + 1]
        asked == [here EXCEPT !.lookups = Append(@, rule.match.name)]
    IN  IF ruleSheet(rule) # s THEN lastFrom(nms, s, sel, i + 1, here, form)
        ELSE IF /\ Truthy(rule.match.address)
                /\ containsAddress(sel, normalizeA1(rule.match.address))
          THEN lastFrom(nms, s, sel, i + 1, here, rule.form)
        ELSE IF Truthy(rule.match.name)
          THEN IF namedRangeOutcome(getItemOrNullObject(nms, rule.match.name), s, sel) = "fire"
                 THEN lastFrom(nms, s, sel, i + 1, asked, rule.form)
                 ELSE lastFrom(nms, s, sel, i + 1, asked, form)
        ELSE lastFrom(nms, s, sel, i + 1, here, form)

overrideFromLast(nms, s, sel, i, acc) == lastFrom(nms, s, sel, i, acc, null)

\* The for-loop of pickSelectionOverride from rule i on. lookups is the
\* sequence of names whose lookup was issued so far, seen the number of rules
\* the loop has entered.
RECURSIVE overrideFrom(_, _, _, _, _)
overrideFrom(nms, s, sel, i, acc) ==
  IF i > Len(SelectionRoutes) THEN [form |-> null, lookups |-> acc.lookups, seen |-> acc.seen]
  ELSE
    LET rule == SelectionRoutes[i]
        here == [lookups |-> acc.lookups, seen |-> acc.seen + 1]
    IN  IF ruleSheet(rule) # s THEN overrideFrom(nms, s, sel, i + 1, here)
        ELSE IF /\ Truthy(rule.match.address)
                /\ containsAddress(sel, normalizeA1(rule.match.address))
          THEN [form |-> rule.form, lookups |-> here.lookups, seen |-> here.seen]
        ELSE IF Truthy(rule.match.name)
          THEN LET asked == [here EXCEPT !.lookups = Append(@, rule.match.name)]
                   nm == getItemOrNullObject(nms, rule.match.name)
               IN  IF namedRangeOutcome(nm, s, sel) = "fire"
                     THEN [form |-> rule.form, lookups |-> asked.lookups, seen |-> asked.seen]
                     ELSE overrideFrom(nms, s, sel, i + 1, asked)
        ELSE overrideFrom(nms, s, sel, i + 1, here)

\* nms stands for ctx: what the workbook's names resolve to during the call.
\* Returns the override (null when no rule fires) with the lookups issued.
pickSelectionOverride(nms, sheetName, selectionAddress) ==
  LET s == trim(toLowerCase(strOrEmpty(sheetName)))
      sel == normalizeA1(selectionAddress)
  IN  IF ~hasSelectionRoutesForSheet(s)
        THEN [form |-> null, lookups |-> <<>>, seen |-> 0]
        ELSE overrideFrom(nms, s, sel, 1, [lookups |-> <<>>, seen |-> 0])

\* The routing lines shared by renderForActiveWorksheet and onSelectionChanged:
\* from the synced worksheet name, A1 text and selection address to the form id.
resolveFormId(nms, name, text, address) ==
  LET sheetName == trim(strOrEmpty(name))
      hint == parseFormHintFromCell(text)
      baseFormId == pickFormId(hint, sheetName)
      selectionAddress == localizeAddress(address)
      ov == pickSelectionOverride(nms, sheetName, selectionAddress)
      finalFormId == IF Truthy(ov.form) THEN ov.form ELSE baseFormId
  IN  [sheetName |-> sheetName, hint |-> hint, baseFormId |-> baseFormId,
       selectionAddress |-> selectionAddress, overrideFormId |-> ov.form,
       lookups |-> ov.lookups, seen |-> ov.seen, finalFormId |-> finalFormId]

(***************************************************************************)
(* Inputs of the router                                                    *)
(***************************************************************************)

Rule(sheet, address, name, form) ==
  [sheet |-> sheet, match |-> [address |-> address, name |-> name], form |-> form]

\* The SelectionRoutes array of the source.
SourceRoutes ==
  <<Rule(<<"s", "e", "t", "t", "i", "n", "g", "s">>, <<"B", "3">>, EmptyStr, <<"c", "o", "l", "o", "r", "P", "a", "l", "e", "t", "t", "e">>)>>

\* Two rules of one sheet whose targets overlap; the second spells the sheet
\* with capitals and surrounding blanks.
OverlappingRoutes ==
  <<Rule(<<"s", "e", "t", "t", "i", "n", "g", "s">>, <<"a", "1", ":", "c", "5">>, EmptyStr, <<"s", "e", "t", "t", "i", "n", "g", "s">>),
    Rule(<<" ", "S", "e", "t", "t", "i", "n", "g", "s", " ">>, <<"$", "B", "$", "3">>, EmptyStr, <<"c", "o", "l", "o", "r", "P", "a", "l", "e", "t", "t", "e">>)>>

\* The examples of the comment above SelectionRoutes: a named-range rule and an
\* address rule with a form that HtmlMap does not list, before the source's rule.
NamedRoutes ==
  <<Rule(<<"s", "e", "t", "t", "i", "n", "g", "s">>, EmptyStr, <<"C", "o", "d", "e", "L", "i", "n", "k">>, <<"s", "e", "t", "t", "i", "n", "g", "s", "C", "o", "d", "e">>),
    Rule(<<"s", "e", "t", "t", "i", "n", "g", "s">>, <<"B", "3">>, EmptyStr, <<"s", "e", "t", "t", "i", "n", "g", "s", "C", "o", "d", "e">>),
    Rule(<<"s", "e", "t", "t", "i", "n", "g", "s">>, <<"B", "3", ":", "B", "4">>, EmptyStr, <<"c", "o", "l", "o", "r", "P", "a", "l", "e", "t", "t", "e">>)>>

\* A rule with both an address and a name, followed by named-range rules.
MixedRoutes ==
  <<Rule(<<"o", "r", "d", "e", "r", "s">>, <<"B", "4">>, <<"C", "o", "d", "e", "L", "i", "n", "k">>, <<"s", "e", "t", "t", "i", "n", "g", "s">>),
    Rule(<<"o", "r", "d", "e", "r", "s">>, EmptyStr, <<"T", "o", "t", "a", "l">>, <<"c", "o", "l", "o", "r", "P", "a", "l", "e", "t", "t", "e">>),
    Rule(<<"o", "r", "d", "e", "r", "s">>, <<"A", "1">>, EmptyStr, <<"d", "e", "f", "a", "u", "l", "t">>)>>

RuleLists == {SourceRoutes, OverlappingRoutes, NamedRoutes, MixedRoutes}

NoNames == [n \in {} |-> NamedItem(FALSE, EmptyStr)]

NameTables == {
  NoNames,
  [n \in {<<"C", "o", "d", "e", "L", "i", "n", "k">>} |-> NamedItem(TRUE, <<"S", "e", "t", "t", "i", "n", "g", "s", "!", "$", "B", "$", "4">>)],
  [n \in {<<"C", "o", "d", "e", "L", "i", "n", "k">>, <<"T", "o", "t", "a", "l">>} |->
     IF n = <<"C", "o", "d", "e", "L", "i", "n", "k">> THEN NamedItem(TRUE, <<"O", "r", "d", "e", "r", "s", "!", "$", "B", "$", "3">>)
     ELSE NamedItem(TRUE, <<"'", "O", "r", "d", "e", "r", "s", "'", "!", "$", "A", "$", "1", ":", "$", "B", "$", "3">>)],
  [n \in {<<"C", "o", "d", "e", "L", "i", "n", "k">>, <<"T", "o", "t", "a", "l">>} |->
     IF n = <<"C", "o", "d", "e", "L", "i", "n", "k">> THEN NamedItem(FALSE, EmptyStr)
     ELSE NamedItem(TRUE, <<"S", "e", "t", "t", "i", "n", "g", "s", "!", "$", "B", "$", "3">>)] }

SheetNames == {
  <<"S", "e", "t", "t", "i", "n", "g", "s">>,
  <<" ", "S", "E", "T", "T", "I", "N", "G", "S">>,
  <<"O", "r", "d", "e", "r", "s">>,
  <<"c", "o", "l", "o", "r", "P", "a", "l", "e", "t", "t", "e">>,
  <<"c", "o", "n", "s", "t", "r", "u", "c", "t", "o", "r">> }

HintTexts == {
  EmptyStr,
  <<"f", "o", "r", "m", ":", "i", "n", "v", "e", "n", "t", "o", "r", "y">>,
  <<"U", "s", "e", " ", "F", "O", "R", "M", " ", ":", " ", "S", "e", "t", "t", "i", "n", "g", "s", " ", "h", "e", "r", "e">>,
  <<"f", "o", "r", "m", ":", "c", "o", "l", "o", "r", "P", "a", "l", "e", "t", "t", "e">> }

LocalSelections == {
  <<"B", "3">>,
  <<"$", "B", "$", "3", ":", "$", "B", "$", "4">>,
  <<"A", "1", ":", "C", "5">>,
  <<"A", "1">> }

\* Range.address of a selection on the sheet called name: the sheet name, "!",
\* the local address. The bare address B3 is tried as well.
SelectionAddresses(name) ==
  {trim(name) \o <<"!">> \o a : a \in LocalSelections} \cup {<<"B", "3">>}

(***************************************************************************)
(* Two-way bindings: the values of cells and fields, and their coercions   *)
(* (src/taskpane.js, "Two-way bindings")                                   *)
(***************************************************************************)

\* JavaScript values: null, booleans, numbers and strings. A number is kept in
\* hundredths; NaN is the only non-finite number that arises.
JsNull == [t |-> "null", v |-> 0]
Bool(b) == [t |-> "boolean", v |-> b]
Num(n) == [t |-> "number", v |-> n]
NaN == [t |-> "nan", v |-> 0]
Str(x) == [t |-> "string", v |-> x]

\* Decimal digits of a natural number.
RECURSIVE IntDigits(_)
IntDigits(k) ==
  IF k < 10 THEN <<DigitChars[k + 1]>>
  ELSE IntDigits(k \div 10) \o <<DigitChars[(k % 10) + 1]>>

\* String(x)
JsString(x) ==
  CASE x.t = "null" -> <<"n", "u", "l", "l">>
    [] x.t = "boolean" -> IF x.v THEN <<"t", "r", "u", "e">> ELSE <<"f", "a", "l", "s", "e">>
    [] x.t = "nan" -> <<"N", "a", "N">>
    [] x.t = "number" ->
         IntDigits(x.v \div 100) \o
           (IF x.v % 100 = 0 THEN <<>>
            ELSE IF x.v % 10 = 0 THEN <<".", DigitChars[((x.v % 100) \div 10) + 1]>>
            ELSE <<".", DigitChars[((x.v % 100) \div 10) + 1], DigitChars[(x.v % 10) + 1]>>)
    [] OTHER -> x.v

AllDigits(ds) == \A i \in 1..Len(ds) : IsDigit(ds[i])

\* Number(x) of a string: blank is 0, an unsigned decimal literal of at most
\* two decimals is its value, any other text is NaN.
StringToNumber(text) ==
  LET u == trim(text)
      parts == split(u, ".")
      whole == parts[1]
      frac == IF Len(parts) = 2 THEN parts[2] ELSE <<>>
  IN  IF u = <<>> THEN Num(0)
      ELSE IF /\ Len(parts) <= 2
              /\ AllDigits(whole) /\ AllDigits(frac)
              /\ Len(whole) + Len(frac) >= 1 /\ Len(frac) <= 2
        THEN Num(parseInt(whole) * 100
                 + (IF Len(frac) = 1 THEN 10 * parseInt(frac) ELSE parseInt(frac)))
        ELSE NaN

\* Number(x)
JsNumber(x) ==
  CASE x.t = "null" -> Num(0)
    [] x.t = "boolean" -> IF x.v THEN Num(100) ELSE Num(0)
    [] x.t = "string" -> StringToNumber(x.v)
    [] OTHER -> x

\* !!x
JsTruthy(x) ==
  CASE x.t = "boolean" -> x.v
    [] x.t = "number" -> x.v # 0
    [] x.t = "string" -> x.v # <<>>
    [] OTHER -> FALSE

\* x ?? ""
OrEmptyString(x) == IF x = JsNull THEN Str(<<>>) ELSE x

\* A field of a form: an input element with its data-type attribute.
Field(type, dataType, checked, value) ==
  [type |-> type, dataType |-> dataType, checked |-> checked, value |-> value]

IsBooleanField(el) == el.type = "checkbox" \/ toLowerCase(el.dataType) = <<"b", "o", "o", "l", "e", "a", "n">>
IsNumberField(el) == ~IsBooleanField(el) /\ toLowerCase(el.dataType) = <<"n", "u", "m", "b", "e", "r">>

\* setElValueFromCell(el, cellValue): the field afterwards. A value assigned
\* to el.value is converted to a string.
setElValueFromCell(el, cellValue) ==
  IF IsBooleanField(el)
    THEN LET valStr == toLowerCase(JsString(cellValue))
         IN  [el EXCEPT !.checked = /\ JsTruthy(cellValue)
                                    /\ valStr # <<"f", "a", "l", "s", "e">>
                                    /\ cellValue # Num(0)]
  ELSE IF IsNumberField(el)
    THEN [el EXCEPT !.value = IF OrEmptyString(cellValue) = Str(<<>>) THEN <<>>
                              ELSE JsString(JsNumber(cellValue))]
  ELSE [el EXCEPT !.value = JsString(OrEmptyString(cellValue))]

\* A getCellValueFromEl that sends the text of a number field as it is.
getCellValueFromElRaw(el) ==
  IF IsBooleanField(el) THEN Bool(el.checked) ELSE Str(el.value)

\* getCellValueFromEl(el)
getCellValueFromEl(el) ==
  IF IsBooleanField(el) THEN Bool(el.checked)
  ELSE IF IsNumberField(el)
    THEN LET n == JsNumber(Str(el.value))
         IN  IF n.t = "number" THEN n ELSE JsNull
  ELSE Str(el.value)

\* The cell after rng.values = [[x]] is synced: it keeps the value written,
\* with its type. A null is either skipped by the host, which leaves the cell
\* as it is, or empties the cell.
CellsAfterWrite(cell, x) ==
  IF x = JsNull THEN {cell, Str(<<>>)} ELSE {x}

\* refreshBoundControls on one field: the value loaded from the cell, as
\* (rng.values && rng.values[0] && rng.values[0][0]) ?? "", is set on it.
FieldAfterRefresh(el, cell) == setElValueFromCell(el, OrEmptyString(cell))

(***************************************************************************)
(* The router applied to drawn inputs                                      *)
(***************************************************************************)

\* The panel before anything was rendered.
BlankPanel == [kind |-> "blank", form |-> null]

\* No selection-changed event yet.
\* RENDER_COOLDOWN_MS of the source.
RENDER_COOLDOWN_MS == 120

\* What the log keeps of the selection-changed events: how long ago the latest
\* one was delivered and how long ago a handler of one last stamped
\* lastRenderTs (both capped at the cooldown window), and of the latest one
\* whether it came less than a window after the one before (near) or after
\* such a stamp (afterWrite), whether it returned at the cooldown check
\* (suppressed), and whether its handler fetched a form or wrote lastRenderTs.
\* It also keeps whether the latest activation (at first, the start-up) has
\* been handled: its manageSelectionSubscription completed without error.
NoSelLog ==
  [seen |-> RENDER_COOLDOWN_MS, stamped |-> RENDER_COOLDOWN_MS, near |-> FALSE,
   afterWrite |-> FALSE, suppressed |-> FALSE, fetched |-> FALSE, wrote |-> FALSE,
   handled |-> FALSE]

\* Date.now() when the add-in starts: far more than a cooldown after time 0.
StartTime == 10 * RENDER_COOLDOWN_MS

\* The shared runtime after load.
RuntimeAtRest ==
  /\ BOOTSTRAPPED = FALSE
  /\ RENDER_BUSY = FALSE
  /\ timers = 0
  /\ skipped = FALSE
  /\ globalShowGuest = "ribbon"
  /\ rearmed = 0

\* No cell-changed notification yet: when the latest one was delivered (0:
\* never), whether a write-back of the add-in caused it, how many
\* notifications its burst counts (capped at 2), how many read-back refreshes
\* the timer has started since, and whether the fields shown have their change
\* listeners.
NoBindLog ==
  [lastNote |-> 0, fromWrite |-> FALSE, burst |-> 0, sinceNote |-> 0, listening |-> FALSE]

\* The bindings before a form with a bound field is wired.
BindingAtRest ==
  /\ boundCell = Str(<<>>)
  /\ field = Field("text", <<>>, FALSE, <<>>)
  /\ debounceTimer = 0
  /\ pending = {}
  /\ sheetChangeUnsub = null
  /\ hostChanged = {}
  /\ bindLog = NoBindLog

\* Capacity and refill period of the notify bucket, and of the log bucket.
NOTIFY_MAX == 6

NOTIFY_REFILL_MS == 10000

LOG_MAX == 20

LOG_REFILL_MS == 60000

\* Window within which a repeated signature is skipped.
DEDUPE_MS == 1200

\* A rate-limit bucket: tokens left, Date.now() of the refill that last added
\* tokens, and whether its suppression note has been shown.
Bucket(tokens, max, refillMs, last, suppressed) ==
  [tokens |-> tokens, max |-> max, refillMs |-> refillMs, last |-> last,
   suppressed |-> suppressed]

\* No call of notify, handleError or tryWrap has just returned: which of them
\* did, how handleError ended ("nested": at its guard, "deduped", "raised":
\* after an exception inside it, "done"), the signature of an error ignored
\* at the guard, how the call settled, the value of tryWrap's promise, and
\* how often tryWrap passed an error to handleError.
NoCall == [call |-> "none", how |-> "none", sig |-> "", settled |-> "none",
           value |-> "none", passed |-> 0]

\* Nothing displayed or scheduled yet: the clock steps taken, what is counted
\* ("toasts" displayed or log "rows" scheduled; "none": nothing yet), the
\* instant from which it is, the count while the window that began then
\* lasts (a refill period of the bucket), when an error of each signature was
\* last handled (0: never, or DEDUPE_MS ago and more), and the call of
\* handleError or tryWrap that has just returned.
NoErrLog ==
  [ticks |-> 0, counting |-> "none", since |-> 0, count |-> 0,
   handledAt |-> [sig \in {"A", "B"} |-> 0],
   last |-> NoCall]

\* ErrorHandler as the script leaves it at load.
HandlerAtRest ==
  /\ initialized = FALSE
  /\ env = TRUE
  /\ inHandle = FALSE
  /\ dedupe = [lastSig |-> "", lastAt |-> 0]
  /\ rate = [notify |-> Bucket(NOTIFY_MAX, NOTIFY_MAX, NOTIFY_REFILL_MS, StartTime, FALSE),
             log |-> Bucket(LOG_MAX, LOG_MAX, LOG_REFILL_MS, StartTime, FALSE)]
  /\ errLog = NoErrLog

\* The event loop before Office.onReady has fired.
LoopAtRest ==
  /\ now = StartTime
  /\ app = BlankPanel
  /\ tasks = {}
  /\ started = 0
  /\ onActivatedAdded = FALSE
  /\ hostSelection = {}
  /\ selLog = NoSelLog

InitRouter ==
  /\ LoopAtRest
  /\ RuntimeAtRest
  /\ HandlerAtRest
  /\ BindingAtRest
  /\ SelectionRoutes \in RuleLists
  /\ names \in NameTables
  /\ wsName \in SheetNames
  /\ a1Text \in HintTexts
  /\ selAddress \in SelectionAddresses(wsName)
  /\ lastRenderedFormId = null
  /\ lastRenderTs = 0
  /\ selectionSub = null
  /\ selectionSubSheet = null
  /\ call = <<>>
  /\ input = <<>>
  /\ output = <<>>

\* One routing computation, as lines 135-141 and 106-112 of the source do it
\* on the synced worksheet name, A1 text and selection address.
Route ==
  /\ call' = <<[names |-> names,
                out |-> resolveFormId(names, wsName, a1Text, selAddress)]>>
  /\ UNCHANGED <<SelectionRoutes, lastRenderedFormId, renderState, names, workbook, probe, loop>>
  /\ UNCHANGED aside

\* renderForm's bookkeeping for the routed form id (lastRenderedFormId = formId).
TrackRendered ==
  /\ call # <<>>
  /\ lastRenderedFormId' = call[1].out.finalFormId
  /\ UNCHANGED <<SelectionRoutes, renderState, names, workbook, call, probe, loop>>
  /\ UNCHANGED aside

\* The user defines, redefines or deletes named items of the workbook.
EditNames(tbl) ==
  /\ names' = tbl
  /\ tbl # names
  /\ UNCHANGED <<SelectionRoutes, lastRenderedFormId, renderState, workbook, call, probe, loop>>
  /\ UNCHANGED aside

NextRouter ==
  \/ Route
  \/ TrackRendered
  \/ \E tbl \in NameTables : EditNames(tbl)

SpecRouter == InitRouter /\ [][NextRouter]_vars

(***************************************************************************)
(* The address utilities applied to drawn inputs                           *)
(***************************************************************************)

AddressTexts == {
  <<"A", "1", ",", "C", "1">>,
  <<"A", "1", ":", "B", "1", ",", "C", "1">>,
  <<"A", "1", ":", "C", "1">>,
  <<"B", "3">>,
  <<"b", "3", ":", "b", "4">>,
  <<"C", "5", ":", "A", "1">>,
  <<"A", "1", ":", "C", "5">>,
  <<"B", "2", ":", "B", "4", ",", " ", "D", "1">>,
  <<"D", "1", ",", "A", "1", ":", "B", "4">>,
  <<"Z", "Z">>,
  <<"A", "A", "1", "0", ":", "A", "B", "1", "2">>,
  <<"A", "B", "1", "1">>,
  EmptyStr }

InitAddr ==
  /\ LoopAtRest
  /\ RuntimeAtRest
  /\ HandlerAtRest
  /\ BindingAtRest
  /\ SelectionRoutes = SourceRoutes
  /\ names = NoNames
  /\ wsName = EmptyStr
  /\ a1Text = EmptyStr
  /\ selAddress = EmptyStr
  /\ lastRenderedFormId = null
  /\ lastRenderTs = 0
  /\ selectionSub = null
  /\ selectionSubSheet = null
  /\ call = <<>>
  /\ input \in [selection : AddressTexts, target : AddressTexts]
  /\ output = <<>>

\* containsAddress(selection, target) on the drawn pair.
Contains ==
  /\ output = <<>>
  /\ output' = <<containsAddress(input.selection, input.target)>>
  /\ UNCHANGED <<SelectionRoutes, lastRenderedFormId, renderState, names, workbook, call, input, loop>>
  /\ UNCHANGED aside

NextAddr == Contains

SpecAddr == InitAddr /\ [][NextAddr]_vars

(***************************************************************************)
(* parsePoint and parseArea applied to drawn tokens                        *)
(***************************************************************************)

\* Longest token drawn.
MaxTokenLen == 3

\* The characters tokens are made of: letters of both cases, digits, the
\* area separator and a blank.
TokenChars == {"A", "Z", "b", "0", "1", ":", " "}

Tokens == UNION {[1..n -> TokenChars] : n \in 0..MaxTokenLen}

InitParse ==
  /\ LoopAtRest
  /\ RuntimeAtRest
  /\ HandlerAtRest
  /\ BindingAtRest
  /\ SelectionRoutes = SourceRoutes
  /\ names = NoNames
  /\ wsName = EmptyStr
  /\ a1Text = EmptyStr
  /\ selAddress = EmptyStr
  /\ lastRenderedFormId = null
  /\ lastRenderTs = 0
  /\ selectionSub = null
  /\ selectionSubSheet = null
  /\ call = <<>>
  /\ input \in [token : Tokens]
  /\ output = <<>>

\* parsePoint(token) and parseArea(token) on the drawn token.
Parse ==
  /\ output = <<>>
  /\ output' = <<[point |-> parsePoint(input.token), area |-> parseArea(input.token)]>>
  /\ UNCHANGED <<SelectionRoutes, lastRenderedFormId, renderState, names, workbook, call, input, loop>>
  /\ UNCHANGED aside

NextParse == Parse

SpecParse == InitParse /\ [][NextParse]_vars

(***************************************************************************)
(* normalizeA1, localizeAddress and containment applied to drawn addresses *)
(***************************************************************************)

\* The characters addresses are made of: letters of both cases, a digit, the
\* dollar sign and the separators of sheet, area and corner.
AddressChars == {"A", "c", "2", "$", "!", ",", ":"}

\* The addresses drawn: every text of these characters up to the longest
\* token, the address texts of the containment checks, and no address at all.
Addresses ==
  UNION {[1..n -> AddressChars] : n \in 0..MaxTokenLen} \cup AddressTexts \cup {null}

InitNormalize ==
  /\ LoopAtRest
  /\ RuntimeAtRest
  /\ HandlerAtRest
  /\ BindingAtRest
  /\ SelectionRoutes = SourceRoutes
  /\ names = NoNames
  /\ wsName = EmptyStr
  /\ a1Text = EmptyStr
  /\ selAddress = EmptyStr
  /\ lastRenderedFormId = null
  /\ lastRenderTs = 0
  /\ selectionSub = null
  /\ selectionSubSheet = null
  /\ call = <<>>
  /\ input \in [address : Addresses]
  /\ output = <<>>

\* normalizeA1 and localizeAddress applied once and twice to the drawn
\* address; areaContains on the area parsed from the normalized text and
\* containsAddress on the normalized text, each against itself.
Normalize ==
  /\ output = <<>>
  /\ output' = <<[normalized |-> normalizeA1(input.address),
                  renormalized |-> normalizeA1(normalizeA1(input.address)),
                  localized |-> localizeAddress(input.address),
                  relocalized |-> localizeAddress(localizeAddress(input.address)),
                  areaInItself |-> areaContains(parseArea(normalizeA1(input.address)),
                                                parseArea(normalizeA1(input.address))),
                  addressInItself |-> containsAddress(normalizeA1(input.address),
                                                      normalizeA1(input.address))]>>
  /\ UNCHANGED <<SelectionRoutes, lastRenderedFormId, renderState, names, workbook, call, input, loop>>
  /\ UNCHANGED aside

NextNormalize == Normalize

SpecNormalize == InitNormalize /\ [][NextNormalize]_vars

(***************************************************************************)
(* A field written to its cell and read back                               *)
(***************************************************************************)

\* The texts a field holds.
FieldTexts == {<<"3", ".", "5">>, <<"3", ".", "5", "0">>, <<"0", "7">>, <<" ", "7", " ">>, <<>>, <<"a", "b", "c">>, <<"3", ".", "5", ".", "1">>, <<"t", "r", "u", "e">>}

\* The fields of a form: check boxes, and text inputs of each data-type.
BoundFields ==
  {Field("checkbox", <<>>, b, <<"o", "n">>) : b \in BOOLEAN}
    \cup {Field("text", <<"B", "o", "o", "l", "e", "a", "n">>, b, <<>>) : b \in BOOLEAN}
    \cup {Field("text", d, FALSE, x) : d \in {<<"n", "u", "m", "b", "e", "r">>, <<"t", "e", "x", "t">>, <<>>}, x \in FieldTexts}

\* What the bound cell holds before the write.
CellValues == {Str(<<>>), Num(350), Bool(TRUE), Str(<<"a", "b", "c">>)}

InitRoundTrip ==
  /\ LoopAtRest
  /\ RuntimeAtRest
  /\ HandlerAtRest
  /\ BindingAtRest
  /\ SelectionRoutes = SourceRoutes
  /\ names = NoNames
  /\ wsName = EmptyStr
  /\ a1Text = EmptyStr
  /\ selAddress = EmptyStr
  /\ lastRenderedFormId = null
  /\ lastRenderTs = 0
  /\ selectionSub = null
  /\ selectionSubSheet = null
  /\ call = <<>>
  /\ input \in [el : BoundFields, cell : CellValues]
  /\ output = <<>>

\* writeBinding(el) on the drawn field, over the drawn cell.
RoundTripWrite ==
  /\ output = <<>>
  /\ \E c \in CellsAfterWrite(input.cell, getCellValueFromEl(input.el)) :
       output' = <<[cell |-> c]>>
  /\ UNCHANGED <<SelectionRoutes, lastRenderedFormId, renderState, names, workbook, call, input, loop>>
  /\ UNCHANGED aside

\* refreshBoundControls after the write.
RoundTripRead ==
  /\ Len(output) = 1
  /\ output' = output \o <<[el |-> FieldAfterRefresh(input.el, output[1].cell)]>>
  /\ UNCHANGED <<SelectionRoutes, lastRenderedFormId, renderState, names, workbook, call, input, loop>>
  /\ UNCHANGED aside

NextRoundTrip == RoundTripWrite \/ RoundTripRead

SpecRoundTrip == InitRoundTrip /\ [][NextRoundTrip]_vars

(***************************************************************************)
(* The event loop of the panel: Office.onReady, the worksheet-activated    *)
(* and selection-changed handlers, and the awaits at which they interleave *)
(***************************************************************************)

\* A handler runs uninterrupted from one await of the host (ctx.sync, fetch,
\* the Excel.run of wireBindings) to the next: each action below is one such
\* stretch. An await of a value that is already there (the result of
\* onActivated.add, onSelectionChanged.add and selectionSub.remove, or of
\* pickSelectionOverride when no rule asks for a name) lets no host callback
\* in and does not end a stretch. The sheet badge is not part of the state.

\* Handler invocations the model follows.
MaxEvents == 3

\* Clock steps the model follows.
MaxTicks == 3

\* Time between two clock steps: half a cooldown window.
TickMs == RENDER_COOLDOWN_MS \div 2

\* The sheets of the workbook.
Sheets == {<<"S", "e", "t", "t", "i", "n", "g", "s">>, <<"O", "r", "d", "e", "r", "s">>}

\* The text of A1 on each sheet: no directive.
A1Of(sheet) == EmptyStr

\* The cells a user selects: the routed cell and two others on the sheet that
\* has a rule, one cell on the other sheet.
CellsOn(sheet) ==
  IF sheet = <<"S", "e", "t", "t", "i", "n", "g", "s">> THEN {<<"B", "3">>, <<"A", "1">>, <<"C", "7">>} ELSE {<<"A", "1">>}

\* The selection a sheet shows when it is activated.
HomeCell == <<"A", "1">>

\* The address the host reports for a selection: sheet-qualified.
AddressOn(sheet, cell) == sheet \o <<"!">> \o cell

\* The awaits of a render cycle: the workbook sync, the fetch of the form
\* and the wiring of the rendered form.
RenderPcs == {"sync", "fetch", "wire"}

\* An invocation of a handler, suspended at the await `pc`.
Task(id, kind, pc) ==
  [id |-> id, kind |-> kind, pc |-> pc, latest |-> FALSE, formId |-> null,
   sheet |-> EmptyStr, adds |-> 0, removes |-> 0]

\* The handle an onSelectionChanged.add returns.
Handle(id) == <<"sub", id>>

\* A cooldown check that never holds an event back.
withinCooldownNever(t) == FALSE

\* A cooldown check with a window four times too short.
withinCooldownQuarter(t) == t - lastRenderTs < RENDER_COOLDOWN_MS \div 4

\* The cooldown check of onSelectionChanged at time t:
\* now - lastRenderTs < RENDER_COOLDOWN_MS.
withinCooldown(t) == t - lastRenderTs < RENDER_COOLDOWN_MS

\* A renderForm that leaves the placeholder in the panel when it tracks the form.
ShownAsLoading(formId) == [kind |-> "loading", form |-> formId]

\* The panel while a form is fetched, and once it is shown. The url fetched
\* is the form's own, or the default form's when the id has none.
Loading(formId) == [kind |-> "loading", form |-> formId]

Shown(formId) ==
  [kind |-> "form", form |-> IF HtmlMapTruthy(formId) THEN formId ELSE <<"d", "e", "f", "a", "u", "l", "t">>]

Replace(t, u) == (tasks \ {t}) \cup {u}

\* What follows a completed render: Office.onReady goes on to
\* setupWorkbookEvents, the activation handler to manageSelectionSubscription,
\* and the selection handler returns.
AfterRender(t) ==
  IF t.kind = "selection" THEN tasks \ {t}
  ELSE Replace(t, [Task(t.id, t.kind, "ms_sync") EXCEPT !.latest = t.latest])

\* What follows manageSelectionSubscription: setupWorkbookEvents syncs its own
\* context, the activation handler returns.
AfterManage(t) ==
  IF t.kind = "ready"
  THEN Replace(t, [Task(t.id, t.kind, "su_sync") EXCEPT !.latest = t.latest])
  ELSE tasks \ {t}

InitLoop ==
  /\ LoopAtRest
  /\ RuntimeAtRest
  /\ HandlerAtRest
  /\ BindingAtRest
  /\ SelectionRoutes = SourceRoutes
  /\ lastRenderedFormId = null
  /\ lastRenderTs = 0
  /\ selectionSub = null
  /\ selectionSubSheet = null
  /\ names = NoNames
  /\ wsName \in Sheets
  /\ a1Text = A1Of(wsName)
  /\ selAddress \in {AddressOn(wsName, c) : c \in CellsOn(wsName)}
  /\ call = <<>>
  /\ input = <<>>
  /\ output = <<>>

\* Office.onReady fires: renderForActiveWorksheet runs up to its sync.
OfficeOnReady ==
  /\ started = 0
  /\ started' = 1
  /\ lastRenderTs' = now
  /\ tasks' = {[Task(1, "ready", "sync") EXCEPT !.latest = TRUE]}
  /\ UNCHANGED <<SelectionRoutes, lastRenderedFormId, selectionSub, selectionSubSheet,
                 names, workbook, call, probe, now, app, onActivatedAdded,
                 hostSelection, selLog>>
  /\ UNCHANGED aside

\* The user activates another sheet; the host calls the activation handler
\* when it holds one, and renderForActiveWorksheet runs up to its sync.
WorksheetActivated(sheet) ==
  /\ sheet # wsName
  /\ wsName' = sheet
  /\ a1Text' = A1Of(sheet)
  /\ selAddress' = AddressOn(sheet, HomeCell)
  /\ IF onActivatedAdded
       THEN /\ started < MaxEvents
            /\ started' = started + 1
            /\ lastRenderTs' = now
            /\ tasks' = {[t EXCEPT !.latest = (t.kind = "selection" /\ @)] : t \in tasks}
                          \cup {[Task(started + 1, "activated", "sync")
                                   EXCEPT !.latest = TRUE]}
       ELSE /\ tasks' = {[t EXCEPT !.latest = (t.kind = "selection" /\ @)] : t \in tasks}
            /\ UNCHANGED <<started, lastRenderTs>>
  /\ selLog' = [selLog EXCEPT !.handled = FALSE]
  /\ UNCHANGED <<SelectionRoutes, lastRenderedFormId, selectionSub, selectionSubSheet,
                 names, call, probe, now, app, onActivatedAdded, hostSelection>>
  /\ UNCHANGED aside

\* The user changes the selection on the active sheet; the host calls
\* onSelectionChanged once for every registration it holds for that sheet.
\* Each call returns at once inside the cooldown, and otherwise runs up to
\* its sync.
SelectionChanged(cell) ==
  /\ AddressOn(wsName, cell) # selAddress
  /\ selAddress' = AddressOn(wsName, cell)
  /\ LET regs == {h \in hostSelection : h.sheet = wsName}
         n == Cardinality(regs)
         cool == withinCooldown(now)
     IN  IF n = 0
           THEN UNCHANGED <<started, tasks, selLog>>
           ELSE /\ started + n <= MaxEvents
                /\ started' = started + n
                /\ tasks' = {[t EXCEPT !.latest = (t.kind # "selection" /\ @)]
                              : t \in tasks} \cup
                            IF cool THEN {}
                            ELSE {[Task(started + k, "selection", "sync")
                                     EXCEPT !.latest = (k = n)] : k \in 1..n}
                /\ selLog' = [seen |-> 0,
                              stamped |-> selLog.stamped,
                              near |-> n > 1 \/ selLog.seen < RENDER_COOLDOWN_MS,
                              afterWrite |-> selLog.stamped < RENDER_COOLDOWN_MS,
                              suppressed |-> cool,
                              fetched |-> FALSE,
                              wrote |-> FALSE,
                              handled |-> selLog.handled]
  /\ UNCHANGED <<SelectionRoutes, lastRenderedFormId, renderState, names, wsName,
                 a1Text, call, probe, now, app, onActivatedAdded, hostSelection>>
  /\ UNCHANGED aside

\* renderForActiveWorksheet after its sync: route, then start renderForm when
\* the form changes.
renderForActiveWorksheet(t) ==
  /\ t.kind \in {"ready", "activated"}
  /\ t.pc = "sync"
  /\ \E finalFormId \in {resolveFormId(names, wsName, a1Text, selAddress).finalFormId} :
         IF finalFormId # lastRenderedFormId
           THEN /\ app' = Loading(finalFormId)
                /\ tasks' = Replace(t, [t EXCEPT !.pc = "fetch", !.formId = finalFormId])
           ELSE /\ app' = app
                /\ tasks' = AfterRender(t)
  /\ UNCHANGED <<SelectionRoutes, lastRenderedFormId, renderState, names, workbook,
                 call, probe, now, started, onActivatedAdded, hostSelection, selLog>>
  /\ UNCHANGED aside

\* onSelectionChanged after its sync: route, and when the form changes stamp
\* lastRenderTs and start renderForm.
onSelectionChanged(t) ==
  /\ t.kind = "selection"
  /\ t.pc = "sync"
  /\ \E nextFormId \in {resolveFormId(names, wsName, a1Text, selAddress).finalFormId} :
         IF nextFormId # lastRenderedFormId
           THEN /\ lastRenderTs' = now
                /\ app' = Loading(nextFormId)
                /\ tasks' = Replace(t, [t EXCEPT !.pc = "fetch", !.formId = nextFormId])
                /\ selLog' = [selLog EXCEPT
                                !.stamped = 0,
                                !.fetched = @ \/ t.latest,
                                !.wrote = @ \/ t.latest]
           ELSE /\ tasks' = tasks \ {t}
                /\ UNCHANGED <<lastRenderTs, app, selLog>>
  /\ UNCHANGED <<SelectionRoutes, lastRenderedFormId, selectionSub, selectionSubSheet,
                 names, workbook, call, probe, now, started, onActivatedAdded,
                 hostSelection>>
  /\ UNCHANGED aside

\* renderForm after the fetch: show the form and track it.
renderForm(t) ==
  /\ t.pc = "fetch"
  /\ app' = Shown(t.formId)
  /\ lastRenderedFormId' = t.formId
  /\ tasks' = Replace(t, [t EXCEPT !.pc = "wire", !.formId = null])
  /\ UNCHANGED <<SelectionRoutes, renderState, names, workbook, call, probe, now,
                 started, onActivatedAdded, hostSelection, selLog>>
  /\ UNCHANGED aside

\* wireBindings completes, and with it the render. The forms rendered here
\* carry no bound field and the host offers no Worksheet.onChanged: nothing is
\* read back or subscribed. Bound fields are followed in SpecBind.
wireBindings(t) ==
  /\ t.pc = "wire"
  /\ tasks' = AfterRender(t)
  /\ UNCHANGED <<SelectionRoutes, lastRenderedFormId, renderState, names, workbook,
                 call, probe, now, app, started, onActivatedAdded, hostSelection,
                 selLog>>
  /\ UNCHANGED aside

\* manageSelectionSubscription after its first sync, up to its last one:
\* drop a subscription that is not needed or is for another sheet, add one
\* when the sheet has rules and none is held.
manageSelectionSubscription(t) ==
  /\ t.pc = "ms_sync"
  /\ LET sheetName == wsName
         needsSelection == hasSelectionRoutesForSheet(sheetName)
         drop == /\ selectionSub # null
                 /\ (~needsSelection \/ strOrEmpty(selectionSubSheet) # sheetName)
         held == IF drop THEN null ELSE selectionSub
         add == needsSelection /\ held = null
     IN  /\ selectionSub' = IF add THEN Handle(t.id) ELSE held
         /\ selectionSubSheet' = IF add THEN sheetName
                                 ELSE IF drop THEN null ELSE selectionSubSheet
         /\ tasks' = Replace(t, [t EXCEPT !.pc = "ms_end",
                                          !.sheet = sheetName,
                                          !.adds = IF add THEN t.id ELSE 0,
                                          !.removes = IF drop THEN selectionSub[2] ELSE 0])
  /\ UNCHANGED <<SelectionRoutes, lastRenderedFormId, lastRenderTs, names, workbook,
                 call, probe, now, app, started, onActivatedAdded, hostSelection,
                 selLog>>
  /\ UNCHANGED aside

\* The last sync of manageSelectionSubscription: the host registers the
\* handler that was added. The removal was queued on the context that made
\* the subscription, which this sync does not flush: the host may or may not
\* have dropped the handler.
manageSelectionSubscriptionEnd(t) ==
  /\ t.pc = "ms_end"
  /\ \E gone \in IF t.removes = 0 THEN {FALSE} ELSE BOOLEAN :
       LET added == IF t.adds = 0 THEN {}
                    ELSE {[handle |-> Handle(t.adds), sheet |-> t.sheet]}
           dropped == IF gone THEN {h \in hostSelection : h.handle = Handle(t.removes)}
                      ELSE {}
       IN  hostSelection' = (hostSelection \ dropped) \cup added
  /\ tasks' = AfterManage(t)
  /\ selLog' = [selLog EXCEPT !.handled = @ \/ t.latest]
  /\ UNCHANGED <<SelectionRoutes, lastRenderedFormId, renderState, names, workbook,
                 call, probe, now, app, started, onActivatedAdded>>
  /\ UNCHANGED aside

\* The last sync of setupWorkbookEvents: the host registers the activation
\* handler.
setupWorkbookEvents(t) ==
  /\ t.pc = "su_sync"
  /\ onActivatedAdded' = TRUE
  /\ tasks' = tasks \ {t}
  /\ UNCHANGED <<SelectionRoutes, lastRenderedFormId, renderState, names, workbook,
                 call, probe, now, app, started, hostSelection, selLog>>
  /\ UNCHANGED aside

\* The await a handler is suspended at rejects. Inside a render the failure
\* ends the handler: onSelectionChanged catches it, Office.onReady and the
\* activation handler let it go and skip what follows the render.
\* manageSelectionSubscription and setupWorkbookEvents catch their own.
Rejects(t) ==
  /\ tasks' = IF t.pc \in {"ms_sync", "ms_end"} THEN AfterManage(t) ELSE tasks \ {t}
  /\ UNCHANGED <<SelectionRoutes, lastRenderedFormId, renderState, names, workbook,
                 call, probe, now, app, started, onActivatedAdded, hostSelection,
                 selLog>>
  /\ UNCHANGED aside

\* Time passes.
Tick ==
  /\ now < StartTime + MaxTicks * TickMs
  /\ now' = now + TickMs
  /\ selLog' = [selLog EXCEPT
                  !.seen = Min(@ + TickMs, RENDER_COOLDOWN_MS),
                  !.stamped = Min(@ + TickMs, RENDER_COOLDOWN_MS)]
  /\ UNCHANGED <<SelectionRoutes, lastRenderedFormId, renderState, names, workbook,
                 call, probe, app, tasks, started, onActivatedAdded, hostSelection>>
  /\ UNCHANGED aside

NextLoop ==
  \/ OfficeOnReady
  \/ \E sheet \in Sheets : WorksheetActivated(sheet)
  \/ \E cell \in CellsOn(wsName) : SelectionChanged(cell)
  \/ \E t \in tasks : renderForActiveWorksheet(t)
  \/ \E t \in tasks : onSelectionChanged(t)
  \/ \E t \in tasks : renderForm(t)
  \/ \E t \in tasks : wireBindings(t)
  \/ \E t \in tasks : manageSelectionSubscription(t)
  \/ \E t \in tasks : manageSelectionSubscriptionEnd(t)
  \/ \E t \in tasks : setupWorkbookEvents(t)
  \/ \E t \in tasks : Rejects(t)
  \/ Tick

(***************************************************************************)
(* The two-way bindings of a form: wireBindings, the worksheet-changed     *)
(* handler and its timer, refreshBoundControls and writeBinding            *)
(***************************************************************************)

\* The form shown carries one bound field, a text input, and the host offers
\* Worksheet.onChanged. A timer runs when it is due: the clock does not pass
\* the due time of a timer that is set.

\* The delay of the timer the worksheet-changed handler sets.
DEBOUNCE_MS == 120

\* The texts the bound cell and the field take.
BindTexts == {<<"a">>, <<"b">>}

\* The forms rendered.
BindForms == {<<"s", "e", "t", "t", "i", "n", "g", "s">>, <<"c", "o", "l", "o", "r", "P", "a", "l", "e", "t", "t", "e">>}

\* The bound field as the form's markup has it.
FreshField == Field("text", <<"t", "e", "x", "t">>, FALSE, <<>>)

\* An asynchronous call in progress, suspended at the await `pc`: whether the
\* elements it holds are those of the form shown, the value a write-back
\* sends, and the subscription a wiring has dropped (0: none).
BindTask(id, kind, pc) ==
  [id |-> id, kind |-> kind, pc |-> pc, latest |-> TRUE, value |-> JsNull, removes |-> 0]

\* renderForm has shown the first form and wireBindings awaits its
\* refreshBoundControls.
InitBind ==
  /\ now = StartTime
  /\ app = Shown(<<"s", "e", "t", "t", "i", "n", "g", "s">>)
  /\ tasks = {BindTask(1, "wire", "refresh")}
  /\ started = 1
  /\ onActivatedAdded = FALSE
  /\ hostSelection = {}
  /\ selLog = NoSelLog
  /\ RuntimeAtRest
  /\ HandlerAtRest
  /\ SelectionRoutes = SourceRoutes
  /\ lastRenderedFormId = <<"s", "e", "t", "t", "i", "n", "g", "s">>
  /\ lastRenderTs = 0
  /\ selectionSub = null
  /\ selectionSubSheet = null
  /\ names = NoNames
  /\ wsName = <<"S", "e", "t", "t", "i", "n", "g", "s">>
  /\ a1Text = EmptyStr
  /\ selAddress = <<"S", "e", "t", "t", "i", "n", "g", "s", "!", "A", "1">>
  /\ call = <<>>
  /\ input = <<>>
  /\ output = <<>>
  /\ boundCell \in {Str(x) : x \in BindTexts}
  /\ field = FreshField
  /\ debounceTimer = 0
  /\ pending = {}
  /\ sheetChangeUnsub = null
  /\ hostChanged = {}
  /\ bindLog = NoBindLog

\* A call in progress once the form it works on is replaced: its elements
\* are no longer in the document, and keep the values they have.
Detached(t) ==
  [t EXCEPT !.latest = FALSE,
            !.value = IF t.latest /\ t.kind = "write" /\ t.pc = "resolve"
                      THEN getCellValueFromEl(field) ELSE @]

\* renderForm shows another form, with a bound field of its own, and
\* wireBindings runs up to the sync of its refreshBoundControls.
Rerender(form) ==
  /\ started < MaxEvents
  /\ form # lastRenderedFormId
  /\ started' = started + 1
  /\ app' = Shown(form)
  /\ lastRenderedFormId' = form
  /\ field' = FreshField
  /\ tasks' = {Detached(t) : t \in tasks} \cup {BindTask(started + 1, "wire", "refresh")}
  /\ bindLog' = [bindLog EXCEPT !.listening = FALSE]
  /\ UNCHANGED <<SelectionRoutes, renderState, names, workbook, call, probe, now,
                 onActivatedAdded, hostSelection, selLog, runtime, handler, boundCell,
                 debounceTimer, pending, sheetChangeUnsub, hostChanged>>

\* wireBindings after its refreshBoundControls: the field shows the cell, the
\* change and blur listeners are attached, and the batch of Excel.run starts.
wireRefresh(t) ==
  /\ t.kind = "wire"
  /\ t.pc = "refresh"
  /\ field' = IF t.latest THEN FieldAfterRefresh(field, boundCell) ELSE field
  /\ bindLog' = [bindLog EXCEPT !.listening = @ \/ t.latest]
  /\ tasks' = Replace(t, [t EXCEPT !.pc = "add"])
  /\ UNCHANGED <<SelectionRoutes, lastRenderedFormId, renderState, names, workbook,
                 call, probe, now, app, started, onActivatedAdded, hostSelection,
                 selLog, runtime, handler, boundCell, debounceTimer, pending,
                 sheetChangeUnsub, hostChanged>>

\* The batch of wireBindings: drop the subscription held, add a new one.
wireOnChanged(t) ==
  /\ t.kind = "wire"
  /\ t.pc = "add"
  /\ sheetChangeUnsub' = Handle(t.id)
  /\ tasks' = Replace(t, [t EXCEPT !.pc = "added",
                                   !.removes = IF sheetChangeUnsub = null THEN 0
                                               ELSE sheetChangeUnsub[2]])
  /\ UNCHANGED <<SelectionRoutes, lastRenderedFormId, renderState, names, workbook,
                 call, probe, now, app, started, onActivatedAdded, hostSelection,
                 selLog, runtime, handler, boundCell, field, debounceTimer, pending,
                 hostChanged, bindLog>>

\* The sync that ends the Excel.run of wireBindings: the host registers the
\* handler added. The removal was queued on the context that made the old
\* subscription, which is not synced: the host may or may not have dropped
\* the old handler.
wireSynced(t) ==
  /\ t.kind = "wire"
  /\ t.pc = "added"
  /\ \E gone \in IF t.removes = 0 THEN {FALSE} ELSE BOOLEAN :
       hostChanged' = (hostChanged \ (IF gone THEN {Handle(t.removes)} ELSE {}))
                        \cup {Handle(t.id)}
  /\ tasks' = tasks \ {t}
  /\ UNCHANGED <<SelectionRoutes, lastRenderedFormId, renderState, names, workbook,
                 call, probe, now, app, started, onActivatedAdded, hostSelection,
                 selLog, runtime, handler, boundCell, field, debounceTimer, pending,
                 sheetChangeUnsub, bindLog>>

\* A clearTimeout that leaves the timer set.
clearTimeoutNoop(set, id) == set

\* clearTimeout(id) on the timers that are set.
clearTimeout(set, id) == set \ {id}

\* The host reports a change of the sheet: every handler it holds runs
\* clearTimeout(debounceTimer); debounceTimer = setTimeout(..., 120), which
\* leaves the timer of the last one.
Notified(fromWrite) ==
  IF hostChanged = {}
    THEN UNCHANGED <<debounceTimer, pending, bindLog>>
    ELSE /\ pending' = clearTimeout(pending, debounceTimer) \cup {now + DEBOUNCE_MS}
         /\ debounceTimer' = now + DEBOUNCE_MS
         /\ bindLog' = [bindLog EXCEPT
                          !.lastNote = now,
                          !.fromWrite = fromWrite,
                          !.burst = IF bindLog.lastNote > 0
                                       /\ now - bindLog.lastNote < DEBOUNCE_MS
                                    THEN Min(@ + 1, 2) ELSE 1,
                          !.sinceNote = 0]

\* Someone edits the bound cell in the workbook.
ExternalEdit(x) ==
  /\ started < MaxEvents
  /\ Str(x) # boundCell
  /\ started' = started + 1
  /\ boundCell' = Str(x)
  /\ Notified(FALSE)
  /\ UNCHANGED <<SelectionRoutes, lastRenderedFormId, renderState, names, workbook,
                 call, probe, now, app, tasks, onActivatedAdded, hostSelection,
                 selLog, runtime, handler, field, sheetChangeUnsub, hostChanged>>

\* The user sets the field and its change (or blur) listener calls
\* writeBinding, which runs up to the sync of resolveRange.
UserChange(x) ==
  /\ bindLog.listening
  /\ started < MaxEvents
  /\ started' = started + 1
  /\ field' = [field EXCEPT !.value = x]
  /\ tasks' = tasks \cup {BindTask(started + 1, "write", "resolve")}
  /\ UNCHANGED <<SelectionRoutes, lastRenderedFormId, renderState, names, workbook,
                 call, probe, now, app, onActivatedAdded, hostSelection, selLog,
                 runtime, handler, boundCell, debounceTimer, pending, sheetChangeUnsub,
                 hostChanged, bindLog>>

\* writeBinding after resolveRange: the value of the field, as it is now, is
\* queued for the cell.
writeBinding(t) ==
  /\ t.kind = "write"
  /\ t.pc = "resolve"
  /\ tasks' = Replace(t, [t EXCEPT !.pc = "sync",
                                   !.value = IF t.latest THEN getCellValueFromEl(field)
                                             ELSE @])
  /\ UNCHANGED <<SelectionRoutes, lastRenderedFormId, renderState, names, workbook,
                 call, probe, now, app, started, onActivatedAdded, hostSelection,
                 selLog, runtime, handler, binding>>

\* The sync of writeBinding: the cell takes the value. The handler of
\* wireBindings looks at nothing the host tells it about a change, and the
\* host may report this one like any other.
writeBindingSync(t) ==
  /\ t.kind = "write"
  /\ t.pc = "sync"
  /\ boundCell' \in CellsAfterWrite(boundCell, t.value)
  /\ \E told \in BOOLEAN :
       IF told THEN Notified(TRUE) ELSE UNCHANGED <<debounceTimer, pending, bindLog>>
  /\ tasks' = tasks \ {t}
  /\ UNCHANGED <<SelectionRoutes, lastRenderedFormId, renderState, names, workbook,
                 call, probe, now, app, started, onActivatedAdded, hostSelection,
                 selLog, runtime, handler, field, sheetChangeUnsub, hostChanged>>

\* A timer of the worksheet-changed handler is due: refreshBoundControls
\* runs up to its sync.
debounceFires ==
  /\ \E due \in pending :
       /\ due <= now
       /\ pending' = pending \ {due}
  /\ started' = started + 1
  /\ tasks' = tasks \cup {BindTask(started + 1, "refresh", "sync")}
  /\ bindLog' = [bindLog EXCEPT !.sinceNote = @ + 1]
  /\ UNCHANGED <<SelectionRoutes, lastRenderedFormId, renderState, names, workbook,
                 call, probe, now, app, onActivatedAdded, hostSelection, selLog,
                 runtime, handler, boundCell, field, debounceTimer, sheetChangeUnsub,
                 hostChanged>>

\* refreshBoundControls after its sync: the field takes the value of the cell.
refreshBoundControls(t) ==
  /\ t.kind = "refresh"
  /\ t.pc = "sync"
  /\ field' = IF t.latest THEN FieldAfterRefresh(field, boundCell) ELSE field
  /\ tasks' = tasks \ {t}
  /\ UNCHANGED <<SelectionRoutes, lastRenderedFormId, renderState, names, workbook,
                 call, probe, now, app, started, onActivatedAdded, hostSelection,
                 selLog, runtime, handler, boundCell, debounceTimer, pending,
                 sheetChangeUnsub, hostChanged, bindLog>>

\* The await a call is suspended at rejects, and the call ends.
bindRejects(t) ==
  /\ tasks' = tasks \ {t}
  /\ UNCHANGED <<SelectionRoutes, lastRenderedFormId, renderState, names, workbook,
                 call, probe, now, app, started, onActivatedAdded, hostSelection,
                 selLog, runtime, handler, binding>>

\* Time passes, up to the next timer that is due.
TickBind ==
  /\ now < StartTime + MaxTicks * TickMs
  /\ \A due \in pending : due > now
  /\ now' = now + TickMs
  /\ UNCHANGED <<SelectionRoutes, lastRenderedFormId, renderState, names, workbook,
                 call, probe, app, tasks, started, onActivatedAdded, hostSelection,
                 selLog, runtime, handler, binding>>

NextBind ==
  \/ \E form \in BindForms : Rerender(form)
  \/ \E t \in tasks : wireRefresh(t)
  \/ \E t \in tasks : wireOnChanged(t)
  \/ \E t \in tasks : wireSynced(t)
  \/ \E x \in BindTexts : ExternalEdit(x)
  \/ \E x \in BindTexts : UserChange(x)
  \/ \E t \in tasks : writeBinding(t)
  \/ \E t \in tasks : writeBindingSync(t)
  \/ debounceFires
  \/ \E t \in tasks : refreshBoundControls(t)
  \/ \E t \in tasks : bindRejects(t)
  \/ TickBind

SpecBind == InitBind /\ [][NextBind]_vars

(***************************************************************************)
(* Vocabulary of the properties, stated on parsed areas and on the rules   *)
(***************************************************************************)

\* The areas an address set names.
AreasOf(addr) ==
  LET parts == split(addr, ",")
  IN  {parseArea(trim(parts[i])) : i \in 1..Len(parts)}

\* Area t lies within area s.
Within(t, s) == s.c1 <= t.c1 /\ s.r1 <= t.r1 /\ s.c2 >= t.c2 /\ s.r2 >= t.r2

\* Address set S covers address set T: each area of T lies within one area of S.
Covers(S, T) == \A t \in AreasOf(T) : \E s \in AreasOf(S) : Within(t, s)

\* The sheet and the selection a routing computation is about.
CurrentSheet == trim(toLowerCase(wsName))
CurrentSelection == normalizeA1(localizeAddress(selAddress))

Routed == call # <<>>
Out == call[1].out

RuleIds == 1..Len(SelectionRoutes)

SameSheet(i) == trim(toLowerCase(SelectionRoutes[i].sheet)) = CurrentSheet

\* Rule i names an address on the current sheet that the selection covers.
AddressFires(i) ==
  /\ SameSheet(i)
  /\ SelectionRoutes[i].match.address # EmptyStr
  /\ Covers(CurrentSelection, normalizeA1(SelectionRoutes[i].match.address))

\* The named item nm is a range of the current sheet.
OnCurrentSheet(nm) ==
  LET parts == split(nm.address, "!")
  IN  /\ nm.isRange
      /\ \/ Len(parts) = 1
         \/ trim(toLowerCase(stripQuotes(parts[1]))) = CurrentSheet

\* Rule i names a named item that resolves, in the names nms, to a range on the
\* current sheet whose local address the selection covers.
NameFires(i, nms) ==
  LET n == SelectionRoutes[i].match.name
  IN  /\ SameSheet(i)
      /\ n # EmptyStr
      /\ n \in DOMAIN nms
      /\ OnCurrentSheet(nms[n])
      /\ Covers(CurrentSelection, normalizeA1(localizeAddress(nms[n].address)))

Fires(i, nms) == AddressFires(i) \/ NameFires(i, nms)

\* Rule i looks its name up: it is a rule of the current sheet with a name
\* whose address match, if it has one, does not fire.
AsksName(i) ==
  SameSheet(i) /\ SelectionRoutes[i].match.name # EmptyStr /\ ~AddressFires(i)

\* The identifier of the form:<identifier> directive each hint text holds, as
\* written in the text; null when the text holds no directive.
Directive(text) ==
  CASE text = <<"f", "o", "r", "m", ":", "i", "n", "v", "e", "n", "t", "o", "r", "y">> -> <<"i", "n", "v", "e", "n", "t", "o", "r", "y">>
    [] text = <<"U", "s", "e", " ", "F", "O", "R", "M", " ", ":", " ", "S", "e", "t", "t", "i", "n", "g", "s", " ", "h", "e", "r", "e">> -> <<"S", "e", "t", "t", "i", "n", "g", "s">>
    [] text = <<"f", "o", "r", "m", ":", "c", "o", "l", "o", "r", "P", "a", "l", "e", "t", "t", "e">> -> <<"c", "o", "l", "o", "r", "P", "a", "l", "e", "t", "t", "e">>
    [] OTHER -> null

KnownDirective(text) ==
  Directive(text) # null /\ toLowerCase(Directive(text)) \in HtmlMapKeys

(***************************************************************************)
(* Properties of the address utilities                                     *)
(***************************************************************************)

\* C5: containsAddress(S, T) is true iff every area of T lies within a single
\* area of S; selection "A1,C1" does not cover target "A1:C1".
C5_CoverageIsPerArea ==
  output # <<>> =>
    /\ output[1] = Covers(input.selection, input.target)
    /\ (input.selection = <<"A", "1", ",", "C", "1">> /\ input.target = <<"A", "1", ":", "C", "1">>) => output[1] = FALSE

\* C5 witness: a selection whose areas together hold every cell of the target
\* although none of them holds the target area, found not to cover it.
C5_Witness ==
  /\ output = <<FALSE>>
  /\ input.selection = <<"A", "1", ":", "B", "1", ",", "C", "1">>
  /\ input.target = <<"A", "1", ":", "C", "1">>

(***************************************************************************)
(* Properties of the router                                                *)
(***************************************************************************)

Scenario1 ==
  /\ SelectionRoutes = SourceRoutes
  /\ wsName = <<"S", "e", "t", "t", "i", "n", "g", "s">>
  /\ selAddress = <<"B", "3">>

\* C1 as stated: whenever the selection covers the target address of a rule of
\* the current sheet, the resolved form id is that rule's form.
C1_EveryCoveringRuleWins ==
  Routed => \A i \in RuleIds : AddressFires(i) => Out.finalFormId = SelectionRoutes[i].form

\* C1 amended: whenever the selection covers the target address of a rule of
\* the current sheet and no earlier rule of the list fires, the resolved form
\* id is that rule's form, whatever the base form; sheet "Settings" with
\* selection "B3" and the source's rule resolves to "colorPalette".
C1_FirstCoveringRuleWins ==
  Routed =>
    /\ \A i \in RuleIds :
         (AddressFires(i) /\ \A j \in 1..(i - 1) : ~Fires(j, call[1].names))
           => Out.finalFormId = SelectionRoutes[i].form
    /\ Scenario1 => Out.finalFormId = <<"c", "o", "l", "o", "r", "P", "a", "l", "e", "t", "t", "e">>

\* C1 witness: scenario 1 with a hint that sets another base form.
C1_Witness ==
  /\ Routed
  /\ Scenario1
  /\ Out.baseFormId = <<"s", "e", "t", "t", "i", "n", "g", "s">>
  /\ a1Text = <<"U", "s", "e", " ", "F", "O", "R", "M", " ", ":", " ", "S", "e", "t", "t", "i", "n", "g", "s", " ", "h", "e", "r", "e">>
  /\ Out.finalFormId = <<"c", "o", "l", "o", "r", "P", "a", "l", "e", "t", "t", "e">>

NoRuleFires == \A i \in RuleIds : ~Fires(i, call[1].names)

Scenario2 ==
  /\ wsName = <<"O", "r", "d", "e", "r", "s">>
  /\ a1Text = <<"f", "o", "r", "m", ":", "i", "n", "v", "e", "n", "t", "o", "r", "y">>

C3_BaseFallsBackToSheetOrDefault ==
  (Routed /\ ~KnownDirective(a1Text)) =>
    /\ Out.baseFormId = IF CurrentSheet \in HtmlMapKeys THEN CurrentSheet ELSE <<"d", "e", "f", "a", "u", "l", "t">>
    /\ (CurrentSheet \notin HtmlMapKeys /\ a1Text = EmptyStr /\ NoRuleFires)
         => Out.finalFormId = <<"d", "e", "f", "a", "u", "l", "t">>

\* C4 as stated, for the sheets whose name HtmlMap does not inherit as a
\* property: whatever the rule list (rules whose form is no key of the form
\* map included), the routed form id and the tracked lastRenderedFormId are
\* keys of the form map.
C4_FormIdIsAlwaysKnown ==
  (Routed /\ CurrentSheet \notin ObjectPrototypeKeys) =>
    /\ Out.finalFormId \in HtmlMapKeys
    /\ lastRenderedFormId # null => lastRenderedFormId \in HtmlMapKeys

\* The rules that fire, and the first of them.
Firing == {i \in RuleIds : Fires(i, call[1].names)}
FirstFiring == CHOOSE i \in Firing : \A j \in Firing : i <= j

\* C6: when several rules fire, the override is the form of the first in
\* declaration order, the loop enters no later rule and issues no named-range
\* lookup for a later rule.
C6_FirstMatchWins ==
  (Routed /\ Firing # {}) =>
    /\ Out.overrideFormId = SelectionRoutes[FirstFiring].form
    /\ Out.seen = FirstFiring
    /\ Len(Out.lookups) = Cardinality({j \in 1..FirstFiring : AsksName(j)})
    /\ \A k \in 1..Len(Out.lookups) :
         \E j \in 1..FirstFiring : AsksName(j) /\ Out.lookups[k] = SelectionRoutes[j].match.name

\* C6 witness: three rules fire, the first by its address, the later two hold
\* names, and no lookup was issued.
C6_Witness ==
  /\ Routed
  /\ Cardinality(Firing) >= 3
  /\ \E j \in Firing : j > FirstFiring /\ NameFires(j, call[1].names)
  /\ Out.lookups = <<>>
  /\ Out.overrideFormId = SelectionRoutes[FirstFiring].form

\* The named item of rule i does not resolve to a range of the current sheet.
NameUnusable(i, nms) ==
  LET n == SelectionRoutes[i].match.name
  IN  \/ n \notin DOMAIN nms
      \/ ~OnCurrentSheet(nms[n])

\* C7: within a rule the address is tested before the name (a rule whose
\* address fires issues no lookup); a rule fires by its name only if the name
\* resolves to a range on the current sheet whose local address the selection
\* covers; a name that does not resolve, is no range or lies on another sheet
\* leaves the rule unfired and the evaluation goes on with the next rule.
C7_NamedRangeRules ==
  Routed =>
    /\ \A i \in RuleIds :
         (Out.overrideFormId # null /\ Out.seen = i)
           => /\ Fires(i, call[1].names)
              /\ AddressFires(i) =>
                   Len(Out.lookups) = Cardinality({j \in 1..(i - 1) : AsksName(j)})
    /\ \A i \in RuleIds :
         (AsksName(i) /\ NameUnusable(i, call[1].names) /\ Out.seen >= i)
           => /\ Out.seen > i \/ (i = Len(SelectionRoutes) /\ Out.overrideFormId = null)
              /\ Out.overrideFormId # null => Out.seen # i

\* C7 witness: a rule whose name resolves to no range of the current sheet was
\* passed over after its lookup and a later rule fired.
C7_Witness ==
  /\ Routed
  /\ Out.overrideFormId # null
  /\ Out.lookups # <<>>
  /\ \E i \in RuleIds :
       AsksName(i) /\ NameUnusable(i, call[1].names) /\ i < Out.seen
         /\ SelectionRoutes[i].match.name \in DOMAIN call[1].names

Rendering == {t \in tasks : t.pc \in RenderPcs}

\* The form the current sheet and selection resolve to.
ResolvedNow == resolveFormId(names, wsName, a1Text, selAddress).finalFormId

C10_OneRenderCycleAtATime == Cardinality(Rendering) <= 1

(***************************************************************************)
(* The shared runtime (src/runtime.js): Office.onReady, the ribbon command *)
(* and the guarded render routine showGuest                                *)
(*                                                                         *)
(* runtime.js declares `async function showGuest()` and assigns            *)
(* `window.showGuest = function (event) {...}`. Loaded as a classic script *)
(* both are the same property of the global object: the declaration is     *)
(* instantiated before the script runs and the assignment replaces it, so  *)
(* the name denotes the ribbon entry point wherever it is called later.    *)
(* Bundled as a module the declaration is local to the file and the name   *)
(* in the callbacks denotes the render routine. The page that loads the    *)
(* file is not part of the sources, so Init draws the outcome.             *)
(***************************************************************************)

\* What the shared runtime leaves alone: the state of the task pane's router
\* and event loop.
taskpane ==
  <<SelectionRoutes, lastRenderedFormId, renderState, names, workbook, call, probe,
    now, onActivatedAdded, hostSelection, selLog, binding, handler>>

\* The panel while the guest form is fetched, and once it is injected.
GuestLoading == [kind |-> "loading", form |-> <<"g", "u", "e", "s", "t">>]

GuestShown == [kind |-> "form", form |-> <<"g", "u", "e", "s", "t">>]

\* An id no execution in progress has.
FreshId == CHOOSE i \in 1..(MaxEvents + 2) : i \notin {t.id : t \in tasks}

\* A document without the element #app.
NoPanel == [kind |-> "none", form |-> null]

InitGuest ==
  /\ now = StartTime
  /\ app \in {BlankPanel, NoPanel}
  /\ tasks = {}
  /\ started = 0
  /\ onActivatedAdded = FALSE
  /\ hostSelection = {}
  /\ selLog = NoSelLog
  /\ BOOTSTRAPPED = FALSE
  /\ RENDER_BUSY = FALSE
  /\ timers = 0
  /\ skipped = FALSE
  /\ globalShowGuest \in {"render", "ribbon"}
  /\ rearmed = 0
  /\ HandlerAtRest
  /\ BindingAtRest
  /\ SelectionRoutes = SourceRoutes
  /\ lastRenderedFormId = null
  /\ lastRenderTs = 0
  /\ selectionSub = null
  /\ selectionSubSheet = null
  /\ names = NoNames
  /\ wsName = <<"G", "u", "e", "s", "t", "s">>
  /\ a1Text = EmptyStr
  /\ selAddress = <<"G", "u", "e", "s", "t", "s", "!", "A", "1">>
  /\ call = <<>>
  /\ input = <<>>
  /\ output = <<>>

\* The Office.onReady callback: once bootstrapped it returns, otherwise it
\* defers the first showGuest to a timer.
RuntimeOnReady ==
  /\ started < MaxEvents
  /\ started' = started + 1
  /\ IF BOOTSTRAPPED
       THEN UNCHANGED <<BOOTSTRAPPED, timers>>
       ELSE /\ BOOTSTRAPPED' = TRUE
            /\ timers' = timers + 1
  /\ UNCHANGED <<taskpane, app, tasks, RENDER_BUSY, skipped, globalShowGuest, rearmed>>

\* The ribbon command window.showGuest(event): completes the event and
\* defers showGuest to a timer.
RibbonShowGuest ==
  /\ started < MaxEvents
  /\ started' = started + 1
  /\ timers' = timers + 1
  /\ UNCHANGED <<taskpane, app, tasks, BOOTSTRAPPED, RENDER_BUSY, skipped,
                 globalShowGuest, rearmed>>

\* The flag after an invocation returned at the guard, were the guard inside
\* the try block whose finally clears it.
busyAfterDropCleared == FALSE

\* The flag after an invocation returned at the guard: as it was.
busyAfterDrop == RENDER_BUSY

\* The flag after the body, were there no finally block to clear it.
busyAfterFinallyKept == RENDER_BUSY

\* The flag after the finally block of showGuest.
busyAfterFinally == FALSE

\* A timer's callback calls showGuest, and the name denotes the render
\* routine: it runs up to its first await. Return at the guard when a render
\* is in progress; otherwise set the flag and, when there is no #app, return
\* through the finally block, else show the placeholder and enter
\* ErrorHandler.tryWrap, which awaits init.
showGuest ==
  /\ timers > 0
  /\ globalShowGuest = "render"
  /\ timers' = timers - 1
  /\ IF RENDER_BUSY
       THEN /\ RENDER_BUSY' = busyAfterDrop
            /\ skipped' = TRUE
            /\ UNCHANGED <<app, tasks>>
       ELSE IF app = NoPanel
       THEN /\ RENDER_BUSY' = busyAfterFinally
            /\ UNCHANGED <<app, tasks, skipped>>
       ELSE /\ RENDER_BUSY' = TRUE
            /\ app' = GuestLoading
            /\ tasks' = tasks \cup {Task(FreshId, "guest", "init")}
            /\ UNCHANGED skipped
  /\ UNCHANGED <<taskpane, started, BOOTSTRAPPED, globalShowGuest, rearmed>>

\* A timer's callback calls showGuest, and the name denotes the ribbon entry
\* point: called without an event it completes nothing and defers showGuest
\* to a timer again, so one timer has run and one is set. The chain is
\* followed for MaxEvents callbacks.
ribbonAgain ==
  /\ timers > 0
  /\ globalShowGuest = "ribbon"
  /\ rearmed < MaxEvents
  /\ rearmed' = rearmed + 1
  /\ UNCHANGED <<taskpane, app, tasks, started, BOOTSTRAPPED, RENDER_BUSY, timers,
                 skipped, globalShowGuest>>

\* ErrorHandler.init has resolved: the fragment is fetched.
guestFetch(t) ==
  /\ t.kind = "guest"
  /\ t.pc = "init"
  /\ tasks' = Replace(t, [t EXCEPT !.pc = "fetch"])
  /\ UNCHANGED <<taskpane, app, started, runtime>>

\* The fragment has arrived: it replaces the placeholder, the form is
\* hydrated, tryWrap returns and the finally block clears the flag.
guestInject(t) ==
  /\ t.kind = "guest"
  /\ t.pc = "fetch"
  /\ app' = IF app # GuestShown THEN GuestShown ELSE app
  /\ tasks' = tasks \ {t}
  /\ RENDER_BUSY' = busyAfterFinally
  /\ UNCHANGED <<taskpane, started, BOOTSTRAPPED, timers, skipped, globalShowGuest,
                 rearmed>>

\* init or the fetch rejects: tryWrap catches and awaits handleError.
guestRejects(t) ==
  /\ t.kind = "guest"
  /\ t.pc \in {"init", "fetch"}
  /\ tasks' = Replace(t, [t EXCEPT !.pc = "handleError"])
  /\ UNCHANGED <<taskpane, app, started, runtime>>

\* handleError has settled: tryWrap returns undefined and the finally block
\* clears the flag.
guestHandled(t) ==
  /\ t.kind = "guest"
  /\ t.pc = "handleError"
  /\ tasks' = tasks \ {t}
  /\ RENDER_BUSY' = busyAfterFinally
  /\ UNCHANGED <<taskpane, app, started, BOOTSTRAPPED, timers, skipped,
                 globalShowGuest, rearmed>>

NextGuest ==
  \/ RuntimeOnReady
  \/ RibbonShowGuest
  \/ showGuest
  \/ ribbonAgain
  \/ \E t \in tasks : guestFetch(t)
  \/ \E t \in tasks : guestInject(t)
  \/ \E t \in tasks : guestRejects(t)
  \/ \E t \in tasks : guestHandled(t)

SpecGuest == InitGuest /\ [][NextGuest]_vars

(***************************************************************************)
(* The central error handler (src/error-handler.js): rate limits, dedupe,  *)
(* the re-entrancy guard of handleError, and tryWrap                       *)
(***************************************************************************)

\* What the error handler leaves alone.
quiet ==
  <<SelectionRoutes, lastRenderedFormId, renderState, names, workbook, call, probe,
    app, started, onActivatedAdded, hostSelection, selLog, runtime, binding>>

\* Signatures of the errors handled: context, message and head of the stack.
Signatures == {"A", "B"}

\* Time between two clock steps: half the refill period of the notify bucket,
\* or half that of the log bucket.
RefillSteps == {NOTIFY_REFILL_MS \div 2, LOG_REFILL_MS \div 2}

\* Clock steps the model follows while the buckets refill.
MaxRefills == 2

\* Calls of tryWrap and handleError in progress at a time.
MaxCalls == 2

\* A refill that fills the bucket whenever a refill period has passed.
refillFull(bucket, t) ==
  IF t - bucket.last >= bucket.refillMs
    THEN [bucket EXCEPT !.tokens = bucket.max, !.last = t, !.suppressed = FALSE]
    ELSE bucket

\* _refill: one token for each whole refill period since bucket.last, up to
\* max; bucket.last moves only when a token is added.
refill(bucket, t) ==
  LET elapsed == t - bucket.last
      add == elapsed \div bucket.refillMs
      tokens == Min(bucket.max, bucket.tokens + add)
  IN  IF add > 0
        THEN [bucket EXCEPT !.tokens = tokens, !.last = t,
                            !.suppressed = IF tokens > 0 THEN FALSE ELSE @]
        ELSE bucket

\* _consume: whether a token was taken, and the bucket afterwards.
consume(bucket, t) ==
  LET b == refill(bucket, t)
  IN  IF b.tokens > 0
        THEN [ok |-> TRUE, bucket |-> [b EXCEPT !.tokens = @ - 1]]
        ELSE [ok |-> FALSE, bucket |-> b]

\* A dedupe check that skips nothing.
shouldDedupeNever(d, sig, t) == [skip |-> FALSE, dedupe |-> [lastSig |-> sig, lastAt |-> t]]

\* shouldDedupe: skip a signature equal to the one kept, kept less than
\* DEDUPE_MS ago; any other replaces the one kept.
shouldDedupe(d, sig, t) ==
  LET isSame == sig = d.lastSig
      within == t - d.lastAt < DEDUPE_MS
  IN  IF isSame /\ within
        THEN [skip |-> TRUE, dedupe |-> d]
        ELSE [skip |-> FALSE, dedupe |-> [lastSig |-> sig, lastAt |-> t]]

\* The body of notify inside its try: the notify bucket afterwards, the toasts
\* displayed, and whether an exception was raised (dom: document.body takes
\* the element; the suppression note is shown in dev only and once per
\* suppression).
notifyBody(bucket, dev, t, dom) ==
  LET c == consume(bucket, t)
  IN  IF ~c.ok
        THEN IF ~c.bucket.suppressed
               THEN [bucket |-> [c.bucket EXCEPT !.suppressed = TRUE], toasts |-> 0,
                     raised |-> dev /\ ~dom]
               ELSE [bucket |-> c.bucket, toasts |-> 0, raised |-> FALSE]
        ELSE [bucket |-> c.bucket, toasts |-> IF dom THEN 1 ELSE 0, raised |-> ~dom]

\* notify: the catch around its body swallows the exception.
notifySettles(raised) == "returned"

notify(bucket, dev, t, dom) ==
  LET n == notifyBody(bucket, dev, t, dom)
  IN  [bucket |-> n.bucket, toasts |-> n.toasts, raised |-> n.raised,
       settled |-> notifySettles(n.raised)]

\* handleError after `await this.init()`, inside its try: the dedupe check,
\* the toast, and the log row or the note that logging is suppressed.
\* threw names what raises an exception: nothing, reading the error to build
\* its message and signature, or the document when a toast is attached.
handleErrorTry(d, r, sig, dev, t, threw) ==
  LET dd == shouldDedupe(d, sig, t)
      n1 == notify(r.notify, dev, t, threw # "dom")
      c == consume(r.log, t)
      n2 == notify(n1.bucket, dev, t, threw # "dom")
      base == [dedupe |-> d, rate |-> r, toasts |-> 0, rows |-> 0, checked |-> FALSE,
               deduped |-> FALSE, raised |-> FALSE, swallowed |-> FALSE]
      told == [base EXCEPT !.dedupe = dd.dedupe, !.checked = TRUE,
                           !.swallowed = n1.raised]
  IN  IF threw = "signature" THEN [base EXCEPT !.raised = TRUE]
      ELSE IF dd.skip THEN [base EXCEPT !.checked = TRUE, !.deduped = TRUE]
      ELSE IF n1.settled = "thrown"
        THEN [told EXCEPT !.rate = [r EXCEPT !.notify = n1.bucket], !.raised = TRUE]
      ELSE IF c.ok
        THEN [told EXCEPT !.rate = [notify |-> n1.bucket, log |-> c.bucket],
                          !.toasts = n1.toasts, !.rows = 1]
      ELSE IF ~c.bucket.suppressed /\ dev
        THEN [told EXCEPT !.rate = [notify |-> n2.bucket,
                                    log |-> [c.bucket EXCEPT !.suppressed = TRUE]],
                          !.toasts = n1.toasts + n2.toasts,
                          !.raised = n2.settled = "thrown",
                          !.swallowed = n1.raised \/ n2.raised]
      ELSE [told EXCEPT !.rate = [notify |-> n1.bucket, log |-> c.bucket],
                        !.toasts = n1.toasts]

\* How handleError ended.
HowEnded(h) ==
  IF h.raised \/ h.swallowed THEN "raised" ELSE IF h.deduped THEN "deduped" ELSE "done"

\* A handleError without the try around its body: what the body raises
\* rejects its promise.
handleErrorRethrows(raised) == IF raised THEN "rejected" ELSE "resolved"

\* handleError: catch (inner) swallows what its try raises.
handleErrorSettles(raised) == "resolved"

\* tryWrap: the try around `await this.handleError(e, label)` swallows a
\* rejection of handleError, and tryWrap returns undefined.
tryWrapSettles(handled) == "resolved"

\* A handleError that never returns at its guard.
guardedNever == FALSE

\* The guard at the head of handleError.
guarded == inHandle

\* An invocation of tryWrap or handleError, suspended at the await `pc`: the
\* signature of the error handleError was passed, and whether tryWrap called
\* it.
ErrTask(id, kind, pc, sig, wrap) ==
  [id |-> id, kind |-> kind, pc |-> pc, sig |-> sig, wrap |-> wrap]

\* What a call of handleError, of tryWrap and of notify leaves behind on its
\* return.
Handled(how, sig, settled) ==
  [call |-> "handleError", how |-> how, sig |-> sig, settled |-> settled,
   value |-> "none", passed |-> 0]

Wrapped(how, sig, settled, value, passed) ==
  [call |-> "tryWrap", how |-> how, sig |-> sig, settled |-> settled, value |-> value,
   passed |-> passed]

Toasted(settled) ==
  [call |-> "notify", how |-> "none", sig |-> "", settled |-> settled, value |-> "none",
   passed |-> 0]

\* init: the first call reads env.dev from the settings sheet, and keeps the
\* default when the sheet or the host is missing; it never throws.
DevAfterInit == IF initialized THEN {env} ELSE BOOLEAN

\* The window over which a bucket's output is counted.
WindowOf(what) == IF what = "toasts" THEN NOTIFY_REFILL_MS ELSE LOG_REFILL_MS

\* The count after `toasts` more toasts and `rows` more log rows.
Counted(toasts, rows) ==
  errLog.count + (IF errLog.counting = "toasts" THEN toasts
                  ELSE IF errLog.counting = "rows" THEN rows ELSE 0)

\* The count after a clock step to t: dropped once the window is over.
StillCounted(t) ==
  IF errLog.counting # "none" /\ t - errLog.since <= WindowOf(errLog.counting)
    THEN errLog.count ELSE 0

InitError ==
  /\ InitGuest
  /\ app = BlankPanel
  /\ globalShowGuest = "ribbon"

\* An error or unhandledrejection event: the listener calls handleError, which
\* returns at the guard or sets inHandle and awaits init.
ErrorEvent(sig) ==
  /\ Cardinality(tasks) < MaxCalls
  /\ IF guarded
       THEN /\ errLog' = [errLog EXCEPT
                            !.last = Handled("nested", sig, handleErrorSettles(FALSE))]
            /\ UNCHANGED <<tasks, inHandle>>
       ELSE /\ inHandle' = TRUE
            /\ tasks' = tasks \cup {ErrTask(FreshId, "handleError", "init", sig, FALSE)}
            /\ errLog' = [errLog EXCEPT !.last = NoCall]
  /\ UNCHANGED <<now, initialized, env, dedupe, rate, quiet>>

\* tryWrap(label, fn) is called and awaits init.
TryWrap ==
  /\ Cardinality(tasks) < MaxCalls
  /\ tasks' = tasks \cup {ErrTask(FreshId, "tryWrap", "init", "", TRUE)}
  /\ errLog' = [errLog EXCEPT !.last = NoCall]
  /\ UNCHANGED <<now, initialized, env, inHandle, dedupe, rate, quiet>>

\* init has resolved: tryWrap calls fn and awaits it.
tryWrapInit(t) ==
  /\ t.kind = "tryWrap" /\ t.pc = "init"
  /\ initialized' = TRUE
  /\ env' \in DevAfterInit
  /\ tasks' = Replace(t, [t EXCEPT !.pc = "fn"])
  /\ errLog' = [errLog EXCEPT !.last = NoCall]
  /\ UNCHANGED <<now, inHandle, dedupe, rate, quiet>>

\* fn has resolved: tryWrap returns its result.
tryWrapReturns(t) ==
  /\ t.kind = "tryWrap" /\ t.pc = "fn"
  /\ tasks' = tasks \ {t}
  /\ errLog' = [errLog EXCEPT !.last = Wrapped("none", "", "resolved", "out", 0)]
  /\ UNCHANGED <<now, initialized, env, inHandle, dedupe, rate, quiet>>

\* fn has thrown or rejected: tryWrap passes the error to handleError, which
\* returns at the guard (and tryWrap returns undefined) or sets inHandle and
\* awaits init.
tryWrapCatches(t, sig) ==
  /\ t.kind = "tryWrap" /\ t.pc = "fn"
  /\ IF guarded
       THEN /\ tasks' = tasks \ {t}
            /\ errLog' = [errLog EXCEPT
                            !.last = Wrapped("nested", sig,
                                             tryWrapSettles(handleErrorSettles(FALSE)),
                                             "undefined", 1)]
            /\ UNCHANGED inHandle
       ELSE /\ inHandle' = TRUE
            /\ tasks' = Replace(t, ErrTask(t.id, "handleError", "init", sig, TRUE))
            /\ errLog' = [errLog EXCEPT !.last = NoCall]
  /\ UNCHANGED <<now, initialized, env, dedupe, rate, quiet>>

\* init has resolved: handleError runs to its end, its finally clears
\* inHandle, and the tryWrap that called it returns undefined.
handleErrorBody(t, threw) ==
  /\ t.kind = "handleError" /\ t.pc = "init"
  /\ \E dev \in DevAfterInit :
       LET h == handleErrorTry(dedupe, rate, t.sig, dev, now, threw)
           settled == handleErrorSettles(h.raised)
       IN  /\ initialized' = TRUE
           /\ env' = dev
           /\ dedupe' = h.dedupe
           /\ rate' = h.rate
           /\ errLog' =
                [errLog EXCEPT
                   !.count = Counted(h.toasts, h.rows),
                   !.handledAt = IF h.checked THEN [@ EXCEPT ![t.sig] = now] ELSE @,
                   !.last = IF t.wrap
                              THEN Wrapped(HowEnded(h), "", tryWrapSettles(settled),
                                           "undefined", 1)
                              ELSE Handled(HowEnded(h), "", settled)]
  /\ inHandle' = FALSE
  /\ tasks' = tasks \ {t}
  /\ UNCHANGED <<now, quiet>>

\* The add-in calls notify itself (a success or an info toast).
NotifyCall(dom) ==
  /\ LET n == notify(rate.notify, env, now, dom)
     IN  /\ rate' = [rate EXCEPT !.notify = n.bucket]
         /\ errLog' = [errLog EXCEPT !.count = Counted(n.toasts, 0),
                                     !.last = Toasted(n.settled)]
  /\ UNCHANGED <<now, tasks, initialized, env, inHandle, dedupe, quiet>>

\* Time passes (at most `most` clock steps are followed).
TickError(step, most) ==
  /\ errLog.ticks < most
  /\ now' = now + step
  /\ errLog' = [errLog EXCEPT
                  !.ticks = @ + 1,
                  !.count = StillCounted(now'),
                  !.handledAt = [sig \in Signatures |->
                                   IF now' - @[sig] < DEDUPE_MS THEN @[sig] ELSE 0],
                  !.last = NoCall]
  /\ UNCHANGED <<tasks, initialized, env, inHandle, dedupe, rate, quiet>>

\* From now on the toasts displayed, or the log rows scheduled, are counted.
Watch(what) ==
  /\ errLog.counting = "none"
  /\ errLog' = [errLog EXCEPT !.counting = what, !.since = now, !.last = NoCall]
  /\ UNCHANGED <<now, tasks, initialized, env, inHandle, dedupe, rate, quiet>>

\* What raises an exception inside handleError.
Failures == {"none", "signature", "dom"}

\* Calls of tryWrap and handleError interleave at their awaits; the clock
\* stands still.
NextError ==
  \/ \E sig \in Signatures : ErrorEvent(sig)
  \/ TryWrap
  \/ \E t \in tasks : tryWrapInit(t)
  \/ \E t \in tasks : tryWrapReturns(t)
  \/ \E t \in tasks, sig \in Signatures : tryWrapCatches(t, sig)
  \/ \E t \in tasks, threw \in Failures : handleErrorBody(t, threw)
  \/ \E dom \in BOOLEAN : NotifyCall(dom)

SpecError == InitError /\ [][NextError]_vars

\* Errors arrive one at a time, less than DEDUPE_MS after one another: no call
\* starts while another is in progress, which would return at the guard.
NextDedupe ==
  \/ \E sig \in Signatures : tasks = {} /\ ErrorEvent(sig)
  \/ \E t \in tasks, threw \in Failures : handleErrorBody(t, threw)
  \/ \E what \in {"toasts", "rows"} : Watch(what)
  \/ TickError(DEDUPE_MS \div 2, MaxTicks)

SpecDedupe == InitError /\ [][NextDedupe]_vars

\* Errors and toasts of the add-in arrive one at a time while the buckets
\* refill: no call starts while another is in progress, which would return at
\* the guard and display nothing, and the document takes every toast.
NextRate ==
  \/ \E sig \in Signatures : tasks = {} /\ ErrorEvent(sig)
  \/ \E t \in tasks : handleErrorBody(t, "none")
  \/ NotifyCall(TRUE)
  \/ \E what \in {"toasts", "rows"} : Watch(what)
  \/ \E step \in RefillSteps : TickError(step, MaxRefills)

SpecRate == InitError /\ [][NextRate]_vars

\* C11: at most one execution of showGuest is in progress at any time, and an
\* invocation that starts while __RENDER_BUSY__ is set returns at once: it
\* leaves the panel, the executions in progress (so no fetch is started) and
\* the flag as they are and leaves no timer behind that would replay it.
C11_ShowGuestIsGuarded ==
  [][/\ Cardinality(tasks') <= 1
     /\ (RENDER_BUSY /\ timers' < timers) =>
          (app' = app /\ tasks' = tasks /\ RENDER_BUSY' /\ timers' = timers - 1)]_vars

\* An invocation was skipped at the guard while the first one, still in
\* progress, shows the placeholder.
C11_Witness ==
  /\ skipped
  /\ RENDER_BUSY
  /\ app = GuestLoading
  /\ \E t \in tasks : t.pc = "fetch"

\* Some rule of SelectionRoutes targets the sheet: the names are equal once
\* lower-cased and trimmed.
Targets(sheet) ==
  \E i \in 1..Len(SelectionRoutes) :
    trim(toLowerCase(SelectionRoutes[i].sheet)) = trim(toLowerCase(sheet))

\* C12: after an activation has been handled (its manageSelectionSubscription
\* completed without error, and no activation came since), a selection-changed
\* subscription is held iff a rule targets the active sheet, and when one is
\* held selectionSubSheet is the name of the active sheet.
C12_SubscriptionFollowsRoutes ==
  selLog.handled =>
    /\ (selectionSub # null) <=> Targets(wsName)
    /\ (selectionSub # null) => (selectionSubSheet = wsName)

\* The handler of an activation has completed, and it took a new subscription
\* for the sheet that has a rule: the one of the start-up had been dropped on
\* the sheet without rules.
C12_Witness ==
  /\ selLog.handled
  /\ tasks = {}
  /\ Targets(wsName)
  /\ selectionSub # null
  /\ selectionSub # Handle(1)
  /\ selectionSubSheet = wsName

\* C13 (as stated, at the points where it is easiest to meet): at most one
\* selection-changed handler is registered with the host, and once no handler
\* invocation is in progress a registered handler is the one recorded in
\* selectionSub.
C13_SubscriptionsNeverLeak ==
  /\ Cardinality(hostSelection) <= 1
  /\ (tasks = {}) => (\A h \in hostSelection : h.handle = selectionSub)

\* C17 (as stated): a failure inside the render of Office.onReady or of the
\* activation handler is caught there, so the handler always goes on to what
\* follows the render: setting up the workbook events, recomputing the
\* selection subscription. A handler in its render is never ended by a step.
C17_RenderFailureIsCaughtAtTheEntryPoint ==
  [][\A t \in tasks :
       (t.kind \in {"ready", "activated"} /\ t.pc \in RenderPcs)
         => \E u \in tasks' : u.id = t.id]_vars

\* C18 (as stated): a render whose fetch failed leaves the panel as it was
\* before the render; with no render in progress the panel never shows the
\* loading placeholder.
C18_FailedRenderKeepsThePanel ==
  (Rendering = {}) => (app.kind # "loading")

\* A token that is letters followed by digits, whatever the case of the letters.
LettersThenDigits(tok) ==
  \E k \in 1..(Len(tok) - 1) :
    /\ \A i \in 1..k : IsUpper(tok[i]) \/ IsLower(tok[i])
    /\ \A i \in (k + 1)..Len(tok) : IsDigit(tok[i])

\* C19 (as stated): parsePoint and parseArea return, for every token, a column
\* and a row that are at least 1, and a token that is not letters followed by
\* digits parses as column 1, row 1.
C19_ParsingIsTotal ==
  output # <<>> =>
    /\ output[1].point.c >= 1 /\ output[1].point.r >= 1
    /\ output[1].area.c1 >= 1 /\ output[1].area.r1 >= 1
    /\ output[1].area.c2 >= 1 /\ output[1].area.r2 >= 1
    /\ ~LettersThenDigits(input.token) => output[1].point = [c |-> 1, r |-> 1]

\* C20 (as stated): the token "ZZ" parses to the column its letters decode
\* to, 702, and row 1.
C20_LettersOnlyDecodes ==
  (output # <<>> /\ input.token = <<"Z", "Z">>) => output[1].point = [c |-> 702, r |-> 1]

\* C20 (amended): a token of letters with no digits parses to column 1,
\* row 1; the letters are decoded in base 26 only when digits follow them, so
\* "ZZ1" parses to column 702, row 1.
C20_LettersOnlyDefaults ==
  output # <<>> =>
    /\ (input.token # <<>> /\ \A i \in 1..Len(input.token) :
                                 IsUpper(input.token[i]) \/ IsLower(input.token[i]))
         => output[1].point = [c |-> 1, r |-> 1]
    /\ input.token = <<"Z", "Z", "1">> => output[1].point = [c |-> 702, r |-> 1]

C20_Witness ==
  /\ output # <<>>
  /\ input.token = <<"Z", "Z">>
  /\ output[1].point = [c |-> 1, r |-> 1]
  /\ output[1].area = [c1 |-> 1, r1 |-> 1, c2 |-> 1, r2 |-> 1]

\* The number a text stands for, in hundredths, for the texts that are numbers.
NumberOfText ==
  [x \in {<<"3", ".", "5">>, <<"3", ".", "5", "0">>, <<"0", "7">>, <<" ", "7", " ">>, <<>>} |->
     CASE x = <<"3", ".", "5">> -> 350 [] x = <<"3", ".", "5", "0">> -> 350 [] x = <<"0", "7">> -> 700
       [] x = <<" ", "7", " ">> -> 700 [] OTHER -> 0]

\* The text a number shows as.
TextOfNumber == [n \in {0, 350, 700} |-> CASE n = 350 -> <<"3", ".", "5">> [] n = 700 -> <<"7">> [] OTHER -> <<"0">>]

\* C16: a field written to its cell and read back holds the coerced value. A
\* boolean field that is checked gives the cell true and stays checked, one
\* that is not gives false and stays unchecked; a number field whose text is a
\* number gives the cell that number and shows it ("3.5" gives 3.5 and shows
\* "3.5"); a text field gives the cell its text and keeps it. A number field
\* whose text is not a number writes null and then shows what the cell holds.
C16_BindingRoundTrip ==
  Len(output) = 2 =>
    LET el == input.el
        cell == output[1].cell
        back == output[2].el
        boolean == el.type = "checkbox" \/ el.dataType = <<"B", "o", "o", "l", "e", "a", "n">>
        number == ~boolean /\ el.dataType = <<"n", "u", "m", "b", "e", "r">>
    IN  /\ boolean => (cell = Bool(el.checked) /\ back = el)
        /\ (number /\ el.value \in DOMAIN NumberOfText) =>
             /\ cell = Num(NumberOfText[el.value])
             /\ back = [el EXCEPT !.value = TextOfNumber[NumberOfText[el.value]]]
        /\ (number /\ el.value \notin DOMAIN NumberOfText) =>
             /\ cell \in {input.cell, Str(<<>>)}
             /\ back.checked = el.checked
        /\ (~boolean /\ ~number) => (cell = Str(el.value) /\ back = el)

\* The number field holding "3.5", over a cell that held something else, has
\* gone through the round trip.
C16_Witness ==
  /\ Len(output) = 2
  /\ input.el = Field("text", <<"n", "u", "m", "b", "e", "r">>, FALSE, <<"3", ".", "5">>)
  /\ input.cell = Str(<<"a", "b", "c">>)
  /\ output[1].cell = Num(350)
  /\ output[2].el.value = <<"3", ".", "5">>

\* C14: a burst of cell-changed notifications, each less than 120 ms after
\* the one before, yields exactly one read-back refresh, started 120 ms after
\* the last notification: none has started before that, one has started after
\* it, and the step that starts it comes 120 ms after the last notification.
\* Neither a notification nor the start of the refresh routes, fetches a form
\* or changes lastRenderedFormId.
C14_CellChangedDebounce ==
  /\ [](bindLog.lastNote > 0 =>
          /\ bindLog.sinceNote <= 1
          /\ (now < bindLog.lastNote + 120) => (bindLog.sinceNote = 0)
          /\ (now > bindLog.lastNote + 120) => (bindLog.sinceNote = 1))
  /\ [][/\ (bindLog'.sinceNote > bindLog.sinceNote /\ bindLog'.lastNote = bindLog.lastNote) =>
             /\ now = bindLog.lastNote + 120
             /\ Cardinality({t \in tasks' \ tasks : t.kind = "refresh"}) = 1
        /\ (bindLog'.sinceNote # bindLog.sinceNote \/ bindLog'.lastNote # bindLog.lastNote) =>
             /\ UNCHANGED <<lastRenderedFormId, call, app, lastRenderTs>>
             /\ {t \in tasks' \ tasks : t.kind = "wire"} = {}]_vars

\* A burst of two notifications 60 ms apart has been followed by its one
\* refresh, 120 ms after the second.
C14_Witness ==
  /\ bindLog.burst = 2
  /\ bindLog.sinceNote = 1
  /\ now = bindLog.lastNote + 120
  /\ pending = {}
  /\ \E t \in tasks : t.kind = "refresh"

\* C15 (as stated): a write-back never causes a read-back refresh; the
\* notification whose timer starts a refresh never comes from the sync of
\* writeBinding.
C15_NoReadAfterOwnWrite ==
  [][(bindLog'.sinceNote > bindLog.sinceNote /\ bindLog'.lastNote = bindLog.lastNote)
       => ~bindLog.fromWrite]_vars

\* C21: containment is reflexive. The area parsed from any text, its corners
\* in any order, contains itself, and every normalized address contains
\* itself.
C21_ContainmentIsReflexive ==
  output # <<>> => (output[1].areaInItself /\ output[1].addressInItself)

\* The area C2:A2, its corners given right to left, and a union of two areas
\* have been checked against themselves.
C21_Witness ==
  /\ output # <<>>
  /\ input.address \in {<<"c", "2", ":", "A">>, <<"A", ",", "c">>}
  /\ output[1].normalized \in {<<"C", "2", ":", "A">>, <<"A", ",", "C">>}
  /\ output[1].areaInItself
  /\ output[1].addressInItself

\* C22: normalizeA1 is idempotent on every input, and so is localizeAddress
\* on every address without a sheet prefix. The normalized text holds no "$"
\* and no lower-case letter.
C22_NormalizationIsIdempotent ==
  output # <<>> =>
    /\ output[1].renormalized = output[1].normalized
    /\ \A i \in 1..Len(output[1].normalized) :
         output[1].normalized[i] # "$" /\ ~IsLower(output[1].normalized[i])
    /\ (input.address = null \/ \A i \in 1..Len(input.address) : input.address[i] # "!")
         => output[1].relocalized = output[1].localized

\* An address with two dollar signs and a lower-case letter has been
\* normalized, once and twice.
C22_Witness ==
  /\ output # <<>>
  /\ input.address = <<"$", "c", "$">>
  /\ output[1].normalized = <<"C">>
  /\ output[1].renormalized = <<"C">>
  /\ output[1].localized = <<"c">>
  /\ output[1].relocalized = <<"c">>

\* C23: a form swap happens only on change. When a handler has read the
\* workbook and the form the router gives is the one tracked, it starts no
\* fetch and leaves the panel and lastRenderedFormId as they are; when the
\* form differs it starts the fetch of that form (unless its read failed) and
\* leaves lastRenderedFormId alone. lastRenderedFormId changes only in the
\* step in which a fetch has succeeded and the panel takes the form fetched.
C23_SwapOnlyOnChange ==
  [][/\ \A t \in tasks :
          (t.pc = "sync" /\ \A u \in tasks' : u.id = t.id => u.pc # "sync") =>
             /\ lastRenderedFormId' = lastRenderedFormId
             /\ IF ResolvedNow = lastRenderedFormId
                  THEN /\ app' = app
                       /\ \A u \in tasks' : u.id = t.id => u.pc # "fetch"
                  ELSE \A u \in tasks' :
                         u.id = t.id => (u.pc = "fetch" /\ u.formId = ResolvedNow
                                         /\ app' = [kind |-> "loading", form |-> ResolvedNow])
     /\ lastRenderedFormId' # lastRenderedFormId =>
          \E t \in tasks :
             /\ t.pc = "fetch" /\ t.formId = lastRenderedFormId'
             /\ \E u \in tasks' : u.id = t.id /\ u.pc = "wire"
             /\ app'.kind = "form"
             /\ app'.form \in {lastRenderedFormId', <<"d", "e", "f", "a", "u", "l", "t">>}]_vars

\* A selection-changed event whose form differed has been fetched and shown,
\* and is tracked.
C23_Witness ==
  /\ selLog.fetched
  /\ tasks = {}
  /\ lastRenderedFormId = <<"c", "o", "l", "o", "r", "P", "a", "l", "e", "t", "t", "e">>
  /\ app = [kind |-> "form", form |-> <<"c", "o", "l", "o", "r", "P", "a", "l", "e", "t", "t", "e">>]

\* C24 (as stated, for an activation after which the selection has not
\* moved): when the handler of the latest activation completes without
\* failure, the panel shows the form the router gives for the active sheet,
\* its hint cell and the selection, and lastRenderedFormId is that form.
C24_SelfHealsOnActivation ==
  [][(/\ ~selLog.handled /\ selLog'.handled
      /\ selAddress = AddressOn(wsName, HomeCell)
      /\ \E t \in tasks : t.kind = "activated" /\ t.latest /\ t.pc = "ms_end")
       => /\ lastRenderedFormId' = ResolvedNow
          /\ app'.kind = "form"
          /\ app'.form \in {ResolvedNow, <<"d", "e", "f", "a", "u", "l", "t">>}]_vars

\* C25: a selection-changed event delivered less than 120 ms after
\* lastRenderTs starts no handler work: no call is left in progress for it
\* (nothing is read, routed or fetched, now or later), and lastRenderTs,
\* lastRenderedFormId and the panel stay as they are. Every activation and the
\* start-up set lastRenderTs to the time they start at, whatever they render.
C25_CooldownEntryGuard ==
  [][/\ (/\ selAddress' # selAddress /\ wsName' = wsName
         /\ now - lastRenderTs < 120)
          => /\ {u.id : u \in tasks'} \subseteq {t.id : t \in tasks}
             /\ UNCHANGED <<lastRenderTs, lastRenderedFormId, app, call>>
     /\ (\E u \in tasks' : u.kind \in {"ready", "activated"} /\ u.id \notin {t.id : t \in tasks})
          => lastRenderTs' = now]_vars

\* A selection-changed event has been held back while the handler of an
\* activation, which stamped lastRenderTs, has not rendered anything.
C25_Witness ==
  /\ selLog.suppressed
  /\ selLog.seen = 0
  /\ now - lastRenderTs < 120
  /\ \E t \in tasks : t.kind \in {"ready", "activated"} /\ t.pc \in {"ms_sync", "ms_end", "su_sync"}
  /\ \A t \in tasks : t.kind # "selection"

TokensInRange ==
  \A b \in {rate.notify, rate.log} : b.tokens >= 0 /\ b.tokens <= b.max

\* C27, as stated: at most NOTIFY_MAX toasts are displayed in any interval of
\* NOTIFY_REFILL_MS and at most LOG_MAX log rows are scheduled in any interval
\* of LOG_REFILL_MS, and the tokens of each bucket stay within 0..max.
C27_AtMostMaxPerPeriod ==
  /\ TokensInRange
  /\ errLog.counting = "toasts" => errLog.count <= NOTIFY_MAX
  /\ errLog.counting = "rows" => errLog.count <= LOG_MAX

\* C27, amended: a full bucket and the one token refilled within the period
\* allow one more, so at most NOTIFY_MAX + 1 toasts are displayed in any
\* interval of NOTIFY_REFILL_MS and at most LOG_MAX + 1 log rows are scheduled
\* in any interval of LOG_REFILL_MS; the tokens of each bucket stay within
\* 0..max.
C27_AtMostOneOverMaxPerPeriod ==
  /\ TokensInRange
  /\ errLog.counting = "toasts" => errLog.count <= NOTIFY_MAX + 1
  /\ errLog.counting = "rows" => errLog.count <= LOG_MAX + 1

\* NOTIFY_MAX + 1 toasts have been displayed within half a refill period of
\* the notify bucket, which is empty again.
C27_Witness ==
  /\ errLog.counting = "toasts"
  /\ errLog.count = NOTIFY_MAX + 1
  /\ now - errLog.since = NOTIFY_REFILL_MS \div 2
  /\ rate.notify.tokens = 0

\* The handleError calls that return in this step having run their body.
Returning == {t \in tasks \ tasks' : t.kind = "handleError"}

\* This step displays no toast, schedules no log row and takes no token.
NothingReported == rate' = rate /\ errLog'.count = errLog.count

\* C28, as stated: an error handled less than DEDUPE_MS after an error of the
\* same signature produces no toast and no log row and takes no token,
\* whatever errors were handled between the two.
C28_RepeatIsSkipped ==
  [][\A t \in Returning :
       (/\ errLog.handledAt[t.sig] # 0
        /\ now - errLog.handledAt[t.sig] < DEDUPE_MS) => NothingReported]_vars

\* C28, amended: an error is skipped when the error that last passed the
\* dedupe check had the same signature and passed it less than DEDUPE_MS
\* before: then it produces no toast and no log row, takes no token and
\* leaves the dedupe state alone.
C28_RepeatOfLastReportedIsSkipped ==
  [][\A t \in Returning :
       (/\ t.sig = dedupe.lastSig
        /\ now - dedupe.lastAt < DEDUPE_MS) =>
         (NothingReported /\ dedupe' = dedupe)]_vars

\* An error has been skipped half a dedupe window after the error of the same
\* signature that was reported.
C28_Witness ==
  /\ errLog.last.how = "deduped"
  /\ now - dedupe.lastAt = DEDUPE_MS \div 2

\* The handleError calls past the guard, their body in progress.
Handling == {t \in tasks : t.kind = "handleError"}

\* C29: inHandle is true exactly while one handleError body is in progress,
\* at most one is, and a handleError call that starts while inHandle is true
\* returns at the guard: it starts no body, leaves inHandle set, the dedupe and
\* rate-limit state alone, displays no toast and schedules no log row.
C29_ReentrancyGuard ==
  /\ [](inHandle <=> Handling # {})
  /\ [](Cardinality(Handling) <= 1)
  /\ [][inHandle =>
          /\ Handling' \subseteq Handling
          /\ errLog'.last.how = "nested" =>
               /\ inHandle'
               /\ Handling' = Handling
               /\ dedupe' = dedupe
               /\ rate' = rate
               /\ errLog'.count = errLog.count]_vars

\* While a handleError call awaits init, a call for an error of another
\* signature has returned at the guard.
C29_Witness ==
  /\ inHandle
  /\ errLog.last.how = "nested"
  /\ \E t \in Handling : t.pc = "init" /\ t.sig # errLog.last.sig

\* C30: each deferred callback of the shared runtime executes the render
\* routine once (which returns at its guard, finds no panel, or sets the
\* panel to loading and starts the fetch) and sets no timer, so no callback
\* re-schedules itself.
C30_CallbackRendersOnce ==
  /\ [](rearmed = 0)
  /\ [][timers' < timers =>
          /\ timers' = timers - 1
          /\ \/ RENDER_BUSY
             \/ app = NoPanel
             \/ app' = GuestLoading /\ Cardinality(tasks') = Cardinality(tasks) + 1]_vars

\* C31: __RENDER_BUSY__ is false whenever no body of showGuest is in
\* progress, whichever way the last one ended, and a callback that runs
\* showGuest then is not turned away at the guard: it finds no panel, or shows
\* the placeholder and starts the fetch.
C31_BusyFlagIsReleased ==
  /\ [](tasks = {} => ~RENDER_BUSY)
  /\ [][(tasks = {} /\ timers' < timers) =>
          /\ skipped' = skipped
          /\ \/ app = NoPanel /\ ~RENDER_BUSY'
             \/ app' = GuestLoading /\ tasks' # {} /\ RENDER_BUSY']_vars

\* A render has ended through handleError, the placeholder still in the
\* panel, and the flag is down with no callback left to run.
C31_Witness ==
  /\ tasks = {}
  /\ app = GuestLoading
  /\ ~RENDER_BUSY
  /\ timers = 0

Init == InitLoop
Next == NextLoop
Spec == Init /\ [][Next]_vars
=============================================================================
